---------------------------- MODULE Spec2Model ----------------------------
(***************************************************************************)
(* SignalGoProxy: the per-connection pipeline of internal/proxy            *)
(* (HandleConnection, sniffProtocol, getSNI, handleSignalProxy,            *)
(* handleStealth), the responders of internal/stealth (ProxyRequest,      *)
(* GetNginxResponse, GetApacheResponse), the configuration                 *)
(* (internal/config) and the server lifecycle (internal/server).           *)
(*                                                                         *)
(* Byte strings are sequences of integers 0..255.  A connection's inbound  *)
(* data is a sequence of non-empty segments (the application-data records  *)
(* of the outer TLS connection): one conn.Read returns bytes of one        *)
(* segment only, as crypto/tls does.                                       *)
(***************************************************************************)
EXTENDS Integers, Sequences, FiniteSets, TLC

VARIABLES
    cfg,            \* config.Config: [StealthMode, ProxyURL]
    input,          \* what the two peers will send on this connection (never changes)
    clientConn,     \* client socket: [rd, end, wr, closed, wclosed, hs]
    bufReader,      \* bufio.Reader over clientConn: [buf, err]
    upstreamConn,   \* upstream socket: [state, dials, rd, end, wr, wclosed]
    pc,             \* position of the HandleConnection goroutine
    sniffed,        \* result of sniffProtocol: [done, protocol, err]
    sig,            \* handleSignalProxy's locals: [done, serverName, rawClientHello, err, ok, upstreamAddr]
    c2u,            \* client -> upstream copy goroutine: [st, err]
    u2c,            \* upstream -> client copy goroutine: [st, err]
    px,             \* one stealth.ProxyRequest call: [st, req, proxyURL, target, clientConn]
    srv             \* server.Server and its process: [main, quit, tlsListener, httpServer,
                    \*   acceptLoop, wg, conns, acceptErrors, closedReported, cached, rand]

vars == <<cfg, input, clientConn, bufReader, upstreamConn, pc, sniffed, sig, c2u, u2c, px, srv>>

---------------------------------------------------------------------------
(* Bounds of the model *)

\* longest run of bytes a peer sends after its first record / as its stream
MaxTrail == 2

---------------------------------------------------------------------------
(* Program constants *)

\* sniper.go:26  reader.Peek(8)
PeekLen == 8
\* handler.go:148, sniper.go:47  0x16 = TLS handshake record
RecordTypeHandshake == 22
\* handler.go:168  1 = ClientHello
MsgTypeClientHello == 1
\* handler.go:142  the TLS record header
RecordHeaderLen == 5
\* bufio.NewReader (handler.go:43) allocates the default 4096-byte buffer
defaultBufSize == 4096
\* io.Copy (handler.go:94, 101) reads through a 32 KiB buffer
copyBufSize == 32768

\* sniper.go:14-18
ProtoSignalTLS == "ProtoSignalTLS"
ProtoHTTP == "ProtoHTTP"
ProtoUnknown == "ProtoUnknown"

\* part_003:15-20
StealthNone == "none"
StealthNginx == "nginx"
StealthApache == "apache"
StealthProxy == "proxy"

\* error values
nil == "nil"
EOF == "EOF"
ErrUnexpectedEOF == "unexpected EOF"
ErrBufferFull == "bufio: buffer full"
ErrReset == "connection reset by peer"

\* not an error value: the end of a stream whose sender keeps its side of the
\* connection open and sends nothing more, so that the next Read never returns
StaysOpen == "stays open"

---------------------------------------------------------------------------
(* Byte-string helpers *)

Min(a, b) == IF a < b THEN a ELSE b

\* s[n:]
Drop(s, n) == SubSeq(s, n + 1, Len(s))

\* s[:n]
Take(s, n) == SubSeq(s, 1, n)

\* strings.HasPrefix(s, p)
HasPrefix(s, p) == Len(s) >= Len(p) /\ Take(s, Len(p)) = p

\* big-endian value of a byte string (binary.BigEndian.Uint16, cryptobyte readUnsigned)
RECURSIVE BigEndian(_)
BigEndian(s) == IF s = <<>> THEN 0 ELSE 256 * BigEndian(Take(s, Len(s) - 1)) + s[Len(s)]

\* concatenation of a sequence of byte strings
RECURSIVE Flatten(_)
Flatten(ss) == IF ss = <<>> THEN <<>> ELSE Head(ss) \o Flatten(Tail(ss))

\* With(v, LAMBDA x : e) is LET x == v IN e, with v evaluated once
With(v, F(_)) == CHOOSE y \in { F(x) : x \in {v} } : TRUE

\* strings.ToLower on an ASCII string: 'A'..'Z' -> 'a'..'z', every other byte kept
ToLower(s) == [i \in 1..Len(s) |-> IF s[i] >= 65 /\ s[i] <= 90 THEN s[i] + 32 ELSE s[i]]

---------------------------------------------------------------------------
(* net.Conn and bufio.Reader, as the pipeline uses them *)

\* conn.Read(p) with len(p) = n on inbound data rd (a sequence of non-empty
\* segments) ending with error `end`: bytes of the first segment only
ConnRead(rd, end, n) ==
    IF rd = <<>> THEN [data |-> <<>>, err |-> end, rd |-> rd]
    ELSE LET h == Head(rd)
             k == Min(n, Len(h))
         IN  [data |-> Take(h, k), err |-> nil,
              rd |-> IF k = Len(h) THEN Tail(rd) ELSE <<Drop(h, k)>> \o Tail(rd)]

\* a Read of the connection would never return
blocked(conn) == conn.rd = <<>> /\ conn.end = StaysOpen

\* bufio.NewReader(conn)
NewReader == [buf |-> <<>>, err |-> nil]

\* (*bufio.Reader).fill: one Read of the connection into the free space
fill(r, end) ==
    LET got == ConnRead(r.rd, end, defaultBufSize - Len(r.b.buf))
    IN  [b |-> [buf |-> r.b.buf \o got.data, err |-> got.err], rd |-> got.rd]

\* the loop of (*bufio.Reader).Peek: fill until n bytes are buffered or an error is pending
RECURSIVE fillUntil(_, _, _)
fillUntil(r, end, n) ==
    IF Len(r.b.buf) < n /\ Len(r.b.buf) < defaultBufSize /\ r.b.err = nil
    THEN With(fill(r, end), LAMBDA f : fillUntil(f, end, n))
    ELSE r

\* a variant of Peek that takes the bytes out of the buffer, as Read does
PeekConsuming(r, end, n) ==
    With(fillUntil(r, end, n), LAMBDA f :
        IF Len(f.b.buf) < n
        THEN [bytes |-> f.b.buf,
              err |-> IF f.b.err # nil THEN f.b.err ELSE ErrBufferFull,
              r |-> [b |-> [buf |-> <<>>, err |-> nil], rd |-> f.rd]]
        ELSE [bytes |-> Take(f.b.buf, n), err |-> nil,
              r |-> [b |-> [buf |-> Drop(f.b.buf, n), err |-> f.b.err], rd |-> f.rd]])

\* reader.Peek(n) on r = [b |-> the bufio.Reader, rd |-> the connection's unread
\* data]: the next n bytes without advancing the reader; fewer bytes come with the
\* pending read error, which is cleared
Peek(r, end, n) ==
    With(fillUntil(r, end, n), LAMBDA f :
        IF Len(f.b.buf) < n
        THEN [bytes |-> f.b.buf,
              err |-> IF f.b.err # nil THEN f.b.err ELSE ErrBufferFull,
              r |-> [b |-> [buf |-> f.b.buf, err |-> nil], rd |-> f.rd]]
        ELSE [bytes |-> Take(f.b.buf, n), err |-> nil, r |-> f])

\* (*bufio.Reader).Read(p) with len(p) = n > 0
BufRead(r, end, n) ==
    IF r.b.buf # <<>>
    THEN LET k == Min(n, Len(r.b.buf))
         IN  [data |-> Take(r.b.buf, k), err |-> nil,
              r |-> [b |-> [r.b EXCEPT !.buf = Drop(r.b.buf, k)], rd |-> r.rd]]
    ELSE IF r.b.err # nil
    THEN [data |-> <<>>, err |-> r.b.err, r |-> [b |-> [r.b EXCEPT !.err = nil], rd |-> r.rd]]
    ELSE IF n >= defaultBufSize
    THEN \* large read, empty buffer: read directly into p
         With(ConnRead(r.rd, end, n), LAMBDA got :
             [data |-> got.data, err |-> got.err, r |-> [b |-> r.b, rd |-> got.rd]])
    ELSE \* one read into the buffer, then copy as much as fits
         With(ConnRead(r.rd, end, defaultBufSize), LAMBDA got :
             IF got.data = <<>>
             THEN [data |-> <<>>, err |-> got.err, r |-> [b |-> r.b, rd |-> got.rd]]
             ELSE [data |-> Take(got.data, Min(n, Len(got.data))), err |-> nil,
                   r |-> [b |-> [buf |-> Drop(got.data, Min(n, Len(got.data))), err |-> nil],
                          rd |-> got.rd]])

\* the loop of io.ReadFull(reader, buf) with len(buf) = n: Read until n bytes or an error
RECURSIVE readLoop(_, _, _, _)
readLoop(r, end, n, acc) ==
    IF Len(acc) >= n THEN [data |-> acc, err |-> nil, r |-> r]
    ELSE With(BufRead(r, end, n - Len(acc)), LAMBDA got :
             With(acc \o got.data, LAMBDA all :
                 IF got.err # nil
                 THEN [data |-> all,
                       err |-> IF Len(all) >= n THEN nil
                               ELSE IF Len(all) > 0 /\ got.err = EOF THEN ErrUnexpectedEOF
                               ELSE got.err,
                       r |-> got.r]
                 ELSE readLoop(got.r, end, n, all)))

\* io.ReadFull(reader, buf) with len(buf) = n
ReadFull(r, end, n) == readLoop(r, end, n, <<>>)

---------------------------------------------------------------------------
(* golang.org/x/crypto/cryptobyte.String, as getSNI uses it.  Every read      *)
(* returns [ok, v, rest]: whether it succeeded, what it read, what is left.   *)

\* s.Skip(n)
Skip(s, n) ==
    IF Len(s) < n THEN [ok |-> FALSE, v |-> <<>>, rest |-> s]
    ELSE [ok |-> TRUE, v |-> Take(s, n), rest |-> Drop(s, n)]

\* s.ReadUint8(&v)
ReadUint8(s) ==
    IF Len(s) < 1 THEN [ok |-> FALSE, v |-> 0, rest |-> s]
    ELSE [ok |-> TRUE, v |-> s[1], rest |-> Drop(s, 1)]

\* s.ReadUint16(&v)
ReadUint16(s) ==
    IF Len(s) < 2 THEN [ok |-> FALSE, v |-> 0, rest |-> s]
    ELSE [ok |-> TRUE, v |-> BigEndian(Take(s, 2)), rest |-> Drop(s, 2)]

\* s.readLengthPrefixed(lenLen, &v): a lenLen-byte big-endian length, then that many bytes
ReadLengthPrefixed(s, lenLen) ==
    IF Len(s) < lenLen THEN [ok |-> FALSE, v |-> <<>>, rest |-> s]
    ELSE With(BigEndian(Take(s, lenLen)), LAMBDA length :
             IF Len(s) - lenLen < length
             THEN [ok |-> FALSE, v |-> <<>>, rest |-> Drop(s, lenLen)]
             ELSE [ok |-> TRUE, v |-> SubSeq(s, lenLen + 1, lenLen + length),
                   rest |-> Drop(s, lenLen + length)])

ReadUint8LengthPrefixed(s) == ReadLengthPrefixed(s, 1)

ReadUint16LengthPrefixed(s) == ReadLengthPrefixed(s, 2)

ReadUint24LengthPrefixed(s) == ReadLengthPrefixed(s, 3)

---------------------------------------------------------------------------
(* getSNI (internal/proxy/handler.go:140-234) *)

\* every error return of getSNI: ("", nil, err)
sniFail(msg) == [serverName |-> <<>>, err |-> msg]

\* a variant of parseServerName that takes the first entry's name whatever its type
parseServerNameAnyType(extData) ==
    With(ReadUint16LengthPrefixed(extData), LAMBDA serverNameList :
        IF ~serverNameList.ok \/ serverNameList.v = <<>>
        THEN sniFail("error parsing server_name extension")
        ELSE
    With(ReadUint8(serverNameList.v), LAMBDA nameType :
        IF ~nameType.ok THEN sniFail("error parsing host_name")
        ELSE
    With(ReadUint16LengthPrefixed(nameType.rest), LAMBDA hostName :
        IF ~hostName.ok \/ hostName.v = <<>> THEN sniFail("error parsing host_name")
        ELSE [serverName |-> hostName.v, err |-> nil])))

\* handler.go:214-225: the server_name extension's data
parseServerName(extData) ==
    With(ReadUint16LengthPrefixed(extData), LAMBDA serverNameList :
        IF ~serverNameList.ok \/ serverNameList.v = <<>>
        THEN sniFail("error parsing server_name extension")
        ELSE
    With(ReadUint8(serverNameList.v), LAMBDA nameType :
        IF ~nameType.ok \/ nameType.v # 0 THEN sniFail("error parsing host_name")
        ELSE
    With(ReadUint16LengthPrefixed(nameType.rest), LAMBDA hostName :
        IF ~hostName.ok \/ hostName.v = <<>> THEN sniFail("error parsing host_name")
        ELSE [serverName |-> hostName.v, err |-> nil])))

\* handler.go:205-231: walk the extensions up to the first server_name
RECURSIVE walkExtensions(_)
walkExtensions(extensions) ==
    IF extensions = <<>> THEN sniFail("SNI not found in ClientHello")
    ELSE
    With(ReadUint16(extensions), LAMBDA extType :
        IF ~extType.ok THEN sniFail("error parsing extension")
        ELSE
    With(ReadUint16LengthPrefixed(extType.rest), LAMBDA extData :
        IF ~extData.ok THEN sniFail("error parsing extension")
        ELSE IF extType.v = 0 THEN parseServerName(extData.v)
        ELSE walkExtensions(extData.rest)))

\* handler.go:177-180: "Skip legacy session id": clientHello.Skip(1)
skipSessionID(clientHello) == Skip(clientHello, 1)

\* handler.go:161-231: the handshake message in the record body
parseClientHello(recordBody) ==
    With(ReadUint8(recordBody), LAMBDA msgType :
        IF ~msgType.ok \/ msgType.v # MsgTypeClientHello
        THEN sniFail("not a ClientHello message")
        ELSE
    With(ReadUint24LengthPrefixed(msgType.rest), LAMBDA clientHello :
        IF ~clientHello.ok THEN sniFail("not a ClientHello message")
        ELSE
    With(Skip(clientHello.v, 2), LAMBDA version :
        IF ~version.ok THEN sniFail("error parsing ClientHello header")
        ELSE
    With(Skip(version.rest, 32), LAMBDA random :
        IF ~random.ok THEN sniFail("error parsing ClientHello header")
        ELSE
    With(skipSessionID(random.rest), LAMBDA sessionID :
        IF ~sessionID.ok THEN sniFail("error parsing session id")
        ELSE
    With(ReadUint16LengthPrefixed(sessionID.rest), LAMBDA cipherSuites :
        IF ~cipherSuites.ok THEN sniFail("error parsing cipher suites")
        ELSE
    With(ReadUint8LengthPrefixed(cipherSuites.rest), LAMBDA compressionMethods :
        IF ~compressionMethods.ok THEN sniFail("error parsing compression methods")
        ELSE IF compressionMethods.rest = <<>> THEN sniFail("no extensions found")
        ELSE
    With(ReadUint16LengthPrefixed(compressionMethods.rest), LAMBDA extensions :
        IF ~extensions.ok THEN sniFail("error parsing extensions")
        ELSE walkExtensions(extensions.v)))))))))

\* a variant of fullRecord that keeps the record body only
fullRecordBodyOnly(header, recordBody) == recordBody

\* handler.go:159: fullRecord := append(header, recordBody...)
fullRecord(header, recordBody) == header \o recordBody

\* a variant of getSNI that reads the record body before it looks at the record type
getSNIBodyFirst(r, end) ==
    With(ReadFull(r, end, RecordHeaderLen), LAMBDA header :
        IF header.err # nil
        THEN [serverName |-> <<>>, raw |-> <<>>,
              err |-> "failed to read TLS record header", r |-> header.r]
        ELSE
    With(ReadFull(header.r, end, BigEndian(Drop(header.data, 3))), LAMBDA recordBody :
        IF recordBody.err # nil
        THEN [serverName |-> <<>>, raw |-> <<>>,
              err |-> "failed to read TLS record body", r |-> recordBody.r]
        ELSE IF header.data[1] # RecordTypeHandshake
        THEN [serverName |-> <<>>, raw |-> <<>>,
              err |-> "not a TLS handshake record", r |-> recordBody.r]
        ELSE
    With(parseClientHello(recordBody.data), LAMBDA parsed :
        IF parsed.err # nil
        THEN [serverName |-> <<>>, raw |-> <<>>, err |-> parsed.err, r |-> recordBody.r]
        ELSE [serverName |-> parsed.serverName,
              raw |-> fullRecord(header.data, recordBody.data),
              err |-> nil, r |-> recordBody.r])))

\* getSNI(reader) on r = [b, rd]: [serverName, raw, err] and the reader afterwards
getSNI(r, end) ==
    With(ReadFull(r, end, RecordHeaderLen), LAMBDA header :
        IF header.err # nil
        THEN [serverName |-> <<>>, raw |-> <<>>,
              err |-> "failed to read TLS record header", r |-> header.r]
        ELSE IF header.data[1] # RecordTypeHandshake
        THEN [serverName |-> <<>>, raw |-> <<>>,
              err |-> "not a TLS handshake record", r |-> header.r]
        ELSE
    With(ReadFull(header.r, end, BigEndian(Drop(header.data, 3))), LAMBDA recordBody :
        IF recordBody.err # nil
        THEN [serverName |-> <<>>, raw |-> <<>>,
              err |-> "failed to read TLS record body", r |-> recordBody.r]
        ELSE
    With(parseClientHello(recordBody.data), LAMBDA parsed :
        IF parsed.err # nil
        THEN [serverName |-> <<>>, raw |-> <<>>, err |-> parsed.err, r |-> recordBody.r]
        ELSE [serverName |-> parsed.serverName,
              raw |-> fullRecord(header.data, recordBody.data),
              err |-> nil, r |-> recordBody.r])))

---------------------------------------------------------------------------
(* sniffProtocol (internal/proxy/sniper.go:22-67) *)

\* sniper.go:54-61: the method tokens, each followed by a space
m_GET == <<71, 69, 84, 32>>

MethodTokens ==
    {m_GET,
     <<80, 79, 83, 84, 32>>,  \* "POST "
     <<72, 69, 65, 68, 32>>,  \* "HEAD "
     <<80, 85, 84, 32>>,  \* "PUT "
     <<68, 69, 76, 69, 84, 69, 32>>,  \* "DELETE "
     <<79, 80, 84, 73, 79, 78, 83, 32>>,  \* "OPTIONS "
     <<80, 65, 84, 67, 72, 32>>,  \* "PATCH "
     <<67, 79, 78, 78, 69, 67, 84, 32>>}  \* "CONNECT "

\* a variant of classify that gives up on every short peek, first byte 0x16 or not
classifyEOFUnknown(peekedBytes, err) ==
    IF err # nil
    THEN IF err = EOF \/ err = ErrUnexpectedEOF
         THEN [protocol |-> ProtoUnknown, err |-> nil]
         ELSE [protocol |-> ProtoUnknown, err |-> err]
    ELSE IF peekedBytes[1] = RecordTypeHandshake
    THEN [protocol |-> ProtoSignalTLS, err |-> nil]
    ELSE IF \E m \in MethodTokens : HasPrefix(peekedBytes, m)
    THEN [protocol |-> ProtoHTTP, err |-> nil]
    ELSE [protocol |-> ProtoUnknown, err |-> nil]

\* a variant of classify that looks for the method tokens in a short peek too
classifyShortHTTP(peekedBytes, err) ==
    IF err # nil /\ ~(err = EOF \/ err = ErrUnexpectedEOF)
    THEN [protocol |-> ProtoUnknown, err |-> err]
    ELSE IF Len(peekedBytes) > 0 /\ peekedBytes[1] = RecordTypeHandshake
    THEN [protocol |-> ProtoSignalTLS, err |-> nil]
    ELSE IF \E m \in MethodTokens : HasPrefix(peekedBytes, m)
    THEN [protocol |-> ProtoHTTP, err |-> nil]
    ELSE [protocol |-> ProtoUnknown, err |-> nil]

\* a variant of classify that matches the method tokens without regard to case
classifyAnyCase(peekedBytes, err) ==
    IF err # nil
    THEN IF err = EOF \/ err = ErrUnexpectedEOF
         THEN IF Len(peekedBytes) > 0 /\ peekedBytes[1] = RecordTypeHandshake
              THEN [protocol |-> ProtoSignalTLS, err |-> nil]
              ELSE [protocol |-> ProtoUnknown, err |-> nil]
         ELSE [protocol |-> ProtoUnknown, err |-> err]
    ELSE IF peekedBytes[1] = RecordTypeHandshake
    THEN [protocol |-> ProtoSignalTLS, err |-> nil]
    ELSE IF \E m \in MethodTokens : HasPrefix(ToLower(peekedBytes), ToLower(m))
    THEN [protocol |-> ProtoHTTP, err |-> nil]
    ELSE [protocol |-> ProtoUnknown, err |-> nil]

\* a variant of classify that takes every failed peek for a short stream
classifyEveryErrorShort(peekedBytes, err) ==
    IF err # nil
    THEN IF Len(peekedBytes) > 0 /\ peekedBytes[1] = RecordTypeHandshake
         THEN [protocol |-> ProtoSignalTLS, err |-> nil]
         ELSE [protocol |-> ProtoUnknown, err |-> nil]
    ELSE IF peekedBytes[1] = RecordTypeHandshake
    THEN [protocol |-> ProtoSignalTLS, err |-> nil]
    ELSE IF \E m \in MethodTokens : HasPrefix(peekedBytes, m)
    THEN [protocol |-> ProtoHTTP, err |-> nil]
    ELSE [protocol |-> ProtoUnknown, err |-> nil]

\* sniper.go:27-66: the classification of what Peek(8) returned
classify(peekedBytes, err) ==
    IF err # nil
    THEN IF err = EOF \/ err = ErrUnexpectedEOF
         THEN IF Len(peekedBytes) > 0 /\ peekedBytes[1] = RecordTypeHandshake
              THEN [protocol |-> ProtoSignalTLS, err |-> nil]
              ELSE [protocol |-> ProtoUnknown, err |-> nil]
         ELSE [protocol |-> ProtoUnknown, err |-> err]
    ELSE IF peekedBytes[1] = RecordTypeHandshake
    THEN [protocol |-> ProtoSignalTLS, err |-> nil]
    ELSE IF \E m \in MethodTokens : HasPrefix(peekedBytes, m)
    THEN [protocol |-> ProtoHTTP, err |-> nil]
    ELSE [protocol |-> ProtoUnknown, err |-> nil]

\* sniffProtocol(reader): [protocol, err] and the reader afterwards
sniffProtocol(r, end) ==
    With(Peek(r, end, PeekLen), LAMBDA peeked :
        With(classify(peeked.bytes, peeked.err), LAMBDA c :
            [protocol |-> c.protocol, err |-> c.err, r |-> peeked.r]))

---------------------------------------------------------------------------
(* The routing table (internal/proxy/handler.go:23-37); host names in ASCII *)

\* "chat.signal.org"
h_chat_signal_org == <<99, 104, 97, 116, 46, 115, 105, 103, 110, 97, 108, 46, 111, 114, 103>>
\* "ud-chat.signal.org"
h_ud_chat_signal_org == <<117, 100, 45, 99, 104, 97, 116, 46, 115, 105, 103, 110, 97, 108, 46, 111, 114, 103>>
\* "updates2.signal.org"
h_updates2_signal_org == <<117, 112, 100, 97, 116, 101, 115, 50, 46, 115, 105, 103, 110, 97, 108, 46, 111, 114, 103>>

\* ":443"
port443 == <<58, 52, 52, 51>>

\* handler.go:23-37
signalUpstreams ==
    (h_chat_signal_org :> (h_chat_signal_org \o port443)) @@
    (h_ud_chat_signal_org :> (h_chat_signal_org \o port443)) @@
    (h_updates2_signal_org :> (h_updates2_signal_org \o port443)) @@
    [h \in {
        \* "storage.signal.org"
        <<115, 116, 111, 114, 97, 103, 101, 46, 115, 105, 103, 110, 97, 108, 46, 111, 114, 103>>,
        \* "cdn.signal.org"
        <<99, 100, 110, 46, 115, 105, 103, 110, 97, 108, 46, 111, 114, 103>>,
        \* "cdn2.signal.org"
        <<99, 100, 110, 50, 46, 115, 105, 103, 110, 97, 108, 46, 111, 114, 103>>,
        \* "cdn3.signal.org"
        <<99, 100, 110, 51, 46, 115, 105, 103, 110, 97, 108, 46, 111, 114, 103>>,
        \* "cdsi.signal.org"
        <<99, 100, 115, 105, 46, 115, 105, 103, 110, 97, 108, 46, 111, 114, 103>>,
        \* "contentproxy.signal.org"
        <<99, 111, 110, 116, 101, 110, 116, 112, 114, 111, 120, 121, 46, 115, 105, 103, 110, 97, 108, 46, 111, 114, 103>>,
        \* "sfu.voip.signal.org"
        <<115, 102, 117, 46, 118, 111, 105, 112, 46, 115, 105, 103, 110, 97, 108, 46, 111, 114, 103>>,
        \* "svr2.signal.org"
        <<115, 118, 114, 50, 46, 115, 105, 103, 110, 97, 108, 46, 111, 114, 103>>,
        \* "svrb.signal.org"
        <<115, 118, 114, 98, 46, 115, 105, 103, 110, 97, 108, 46, 111, 114, 103>>,
        \* "updates.signal.org"
        <<117, 112, 100, 97, 116, 101, 115, 46, 115, 105, 103, 110, 97, 108, 46, 111, 114, 103>>
     } |-> h \o port443]

\* a variant of lookup that takes the server name as it came
lookupCaseSensitive(serverName) ==
    IF serverName \in DOMAIN signalUpstreams
    THEN [ok |-> TRUE, upstreamAddr |-> signalUpstreams[serverName]]
    ELSE [ok |-> FALSE, upstreamAddr |-> <<>>]

\* a variant of lookup that admits every name beginning with a table key
lookupPrefix(serverName) ==
    IF \E k \in DOMAIN signalUpstreams : HasPrefix(ToLower(serverName), k)
    THEN [ok |-> TRUE,
          upstreamAddr |-> signalUpstreams[CHOOSE k \in DOMAIN signalUpstreams :
                                               HasPrefix(ToLower(serverName), k)]]
    ELSE [ok |-> FALSE, upstreamAddr |-> <<>>]

\* handler.go:70: upstreamAddr, ok := signalUpstreams[strings.ToLower(serverName)]
lookup(serverName) ==
    IF ToLower(serverName) \in DOMAIN signalUpstreams
    THEN [ok |-> TRUE, upstreamAddr |-> signalUpstreams[ToLower(serverName)]]
    ELSE [ok |-> FALSE, upstreamAddr |-> <<>>]

---------------------------------------------------------------------------
(* The decoy responses (internal/stealth) *)

\* proxy.go:78-102
nginxHTMLBody == "<!DOCTYPE html>\n<html>\n<head>\n<title>Welcome to nginx!</title>\n<style>\n    body {\n        width: 35em;\n        margin: 0 auto;\n        font-family: Tahoma, Verdana, Arial, sans-serif;\n    }\n</style>\n</head>\n<body>\n<h1>Welcome to nginx!</h1>\n<p>If you see this page, the nginx web server is successfully installed and\nworking. Further configuration is required.</p>\n\n<p>For online documentation and support please refer to\n<a href=\"http://nginx.org/\">nginx.org</a>.<br/>\nCommercial support is available at\n<a href=\"http://nginx.com/\">nginx.com</a>.</p>\n\n<p><em>Thank you for using nginx.</em></p>\n</body>\n</html>"

\* apache.go:10-39
apacheHTMLBody == "<!DOCTYPE html PUBLIC \"-//W3C//DTD XHTML 1.0 Transitional//EN\" \"http://www.w3.org/TR/xhtml1/DTD/xhtml1-transitional.dtd\">\n<html xmlns=\"http://www.w3.org/1999/xhtml\">\n  <head>\n    <meta http-equiv=\"Content-Type\" content=\"text/html; charset=UTF-8\" />\n    <title>Apache2 Ubuntu Default Page: It works</title>\n    <style type=\"text/css\" media=\"screen\">\n      * {\n        margin: 0px 0px 0px 0px;\n        padding: 0px 0px 0px 0px;\n      }\n      body, html {\n        padding: 3px 3px 3px 3px;\n        background-color: #D8DBE2;\n        font-family: Verdana, sans-serif;\n        font-size: 11pt;\n      }\n    </style>\n  </head>\n  <body>\n    <div style=\"margin-left: auto; margin-right: auto; width: 760px; text-align: left;\">\n      <p style=\"text-align: center;\">\n        <b><span style=\"font-size: 14pt;\">Apache2 Ubuntu Default Page</span></b>\n      </p>\n\t  <p>\n\t    This is the default welcome page used to test the correct \n\t    operation of the Apache2 server after installation on Ubuntu systems.\n\t  </p>\n    </div>\n  </body>\n</html>"

\* proxy.go:105-129: GetNginxResponse, date = time.Now().UTC().Format(time.RFC1123)
GetNginxResponse(date) ==
    "HTTP/1.1 200 OK\r\n"
    \o "Server: nginx/1.18.0 (Ubuntu)\r\n"
    \o "Date: " \o date \o "\r\n"
    \o "Content-Type: text/html\r\n"
    \o "Content-Length: " \o ToString(Len(nginxHTMLBody)) \o "\r\n"
    \o "Last-Modified: Tue, 01 Sep 2025 12:00:00 GMT\r\n"
    \o "Connection: close\r\n"
    \o "ETag: \"5f4e3a9c-265\"\r\n"
    \o "Accept-Ranges: bytes\r\n"
    \o "\r\n"
    \o nginxHTMLBody

\* apache.go:42-67: GetApacheResponse, lastModified = generatePastDate()
GetApacheResponse(date, lastModified) ==
    "HTTP/1.1 200 OK\r\n"
    \o "Date: " \o date \o "\r\n"
    \o "Server: Apache/2.4.41 (Ubuntu)\r\n"
    \o "Last-Modified: " \o lastModified \o "\r\n"
    \o "ETag: \"2d-4e9a49938b880\"\r\n"
    \o "Accept-Ranges: bytes\r\n"
    \o "Content-Length: " \o ToString(Len(apacheHTMLBody)) \o "\r\n"
    \o "Vary: Accept-Encoding\r\n"
    \o "Content-Type: text/html\r\n"
    \o "Connection: close\r\n"
    \o "\r\n"
    \o apacheHTMLBody

\* t.UTC().Format(time.RFC1123) for t seconds after 1970-01-01T00:00:00Z:
\* "Mon, 02 Jan 2006 15:04:05 MST", the zone of a UTC time printed as "UTC"
FormatRFC1123(t) ==
    LET z    == (t \div 86400) + 719468
        era  == z \div 146097
        doe  == z - era * 146097
        yoe  == (doe - (doe \div 1460) + (doe \div 36524) - (doe \div 146096)) \div 365
        doy  == doe - (365 * yoe + (yoe \div 4) - (yoe \div 100))
        mp   == (5 * doy + 2) \div 153
        day  == doy - ((153 * mp + 2) \div 5) + 1
        mon  == IF mp < 10 THEN mp + 3 ELSE mp - 9
        year == yoe + era * 400 + (IF mon <= 2 THEN 1 ELSE 0)
        sec  == t % 86400
        two(n) == IF n < 10 THEN "0" \o ToString(n) ELSE ToString(n)
    IN  <<"Thu", "Fri", "Sat", "Sun", "Mon", "Tue", "Wed">>[((t \div 86400) % 7) + 1]
        \o ", " \o two(day) \o " "
        \o <<"Jan", "Feb", "Mar", "Apr", "May", "Jun",
              "Jul", "Aug", "Sep", "Oct", "Nov", "Dec">>[mon]
        \o " " \o ToString(year) \o " "
        \o two(sec \div 3600) \o ":" \o two((sec % 3600) \div 60) \o ":" \o two(sec % 60)
        \o " UTC"

\* part_004:161-173: the instant generatePastDate formats, for the clock reading
\* now, the value r of rand.Intn(365) and the difference zoneShift between the
\* local zone's UTC offset at the result and at now (AddDate keeps the wall clock
\* of time.Now's local zone)
generatePastDate(now, r, zoneShift) == now - ((r + 1) * 86400 + zoneShift)

\* part_004:163, 166: generatePastDate on the process-wide source of math/rand:
\* rand.Seed replaces its state, rand.Intn advances it
reseeded(rand) == [seeds |-> rand.seeds + 1, draws |-> rand.draws + 1]

\* proxy.go:116: the instant that GetNginxResponse's fixed Last-Modified header
\* names, 2025-09-01T12:00:00Z
nginxLastModified == 1756728000

\* the clock readings of one run, in RFC 1123 (time.Now, generatePastDate)
Dates ==
    [date |-> FormatRFC1123(1793552400),
     lastModified |-> FormatRFC1123(generatePastDate(1793552400, 120, 0))]

\* a variant of handleStealth that serves each product's page in the other's mode
handleStealthSwapped(c) ==
    IF c.StealthMode = StealthNginx
    THEN <<GetApacheResponse(Dates.date, Dates.lastModified)>>
    ELSE IF c.StealthMode = StealthApache THEN <<GetNginxResponse(Dates.date)>>
    ELSE <<>>

\* a variant of handleStealth that serves the nginx page in every other mode
handleStealthAlways(c) ==
    IF c.StealthMode = StealthApache
    THEN <<GetApacheResponse(Dates.date, Dates.lastModified)>>
    ELSE <<GetNginxResponse(Dates.date)>>

\* handler.go:111-134: what handleStealth writes to the connection, <<>> for nothing
handleStealth(c) ==
    IF c.StealthMode = StealthNginx THEN <<GetNginxResponse(Dates.date)>>
    ELSE IF c.StealthMode = StealthApache
    THEN <<GetApacheResponse(Dates.date, Dates.lastModified)>>
    ELSE IF c.StealthMode = StealthNone THEN <<>>
    ELSE <<>>

---------------------------------------------------------------------------
(* What the peers send: ClientHello records built as the repository's test   *)
(* helper builds them (unnamed/part_006:84-141), HTTP requests, other bytes  *)

U16(n) == <<n \div 256, n % 256>>

AddUint8LengthPrefixed(x) == <<Len(x)>> \o x

AddUint16LengthPrefixed(x) == U16(Len(x)) \o x

AddUint24LengthPrefixed(x) == <<Len(x) \div 65536, (Len(x) \div 256) % 256, Len(x) % 256>> \o x

\* part_006:90-98: server_name extension: type 0, a list of one host_name entry
serverNameExt(serverName) ==
    U16(0) \o AddUint16LengthPrefixed(
                  AddUint16LengthPrefixed(<<0>> \o AddUint16LengthPrefixed(serverName)))

\* part_006:105-106: extension 0x0017 with no data
paddingExt == U16(23) \o U16(0)

\* extension 0x002b (supported_versions) with three bytes of data
versionsExt == U16(43) \o AddUint16LengthPrefixed(<<2, 3, 4>>)

\* part_006:84-141 buildTestClientHello, with the session id, the cipher suites,
\* the compression methods and the extensions before server_name as parameters
buildClientHello(serverName, sessionID, cipherSuites, compressionMethods, otherExts) ==
    LET extensions == otherExts \o (IF serverName # <<>> THEN serverNameExt(serverName)
                                                         ELSE paddingExt)
        body == U16(771) \o [i \in 1..32 |-> 0]
                \o AddUint8LengthPrefixed(sessionID)
                \o AddUint16LengthPrefixed(cipherSuites)
                \o AddUint8LengthPrefixed(compressionMethods)
                \o AddUint16LengthPrefixed(extensions)
        handshakeMsg == <<MsgTypeClientHello>> \o AddUint24LengthPrefixed(body)
    IN  <<RecordTypeHandshake>> \o U16(769) \o AddUint16LengthPrefixed(handshakeMsg)

\* host names that are not table keys as written
h_evil == <<99, 104, 97, 116, 46, 115, 105, 103, 110, 97, 108, 46, 111, 114, 103, 46, 101, 118, 105, 108, 46, 99, 111, 109>>
h_Chat_Signal_Org == <<67, 104, 97, 116, 46, 83, 105, 103, 110, 97, 108, 46, 79, 114, 103>>
h_CHAT_SIGNAL_ORG == <<67, 72, 65, 84, 46, 83, 73, 71, 78, 65, 76, 46, 79, 82, 71>>
h_UD_Chat == <<85, 68, 45, 67, 104, 97, 116, 46, 115, 105, 103, 110, 97, 108, 46, 111, 114, 103>>
h_Updates2 == <<117, 112, 100, 97, 116, 101, 115, 50, 46, 83, 105, 103, 110, 97, 108, 46, 79, 82, 71>>

ServerNames ==
    DOMAIN signalUpstreams
    \cup {<<101, 120, 97, 109, 112, 108, 101, 46, 99, 111, 109>>,  \* "example.com"
          h_evil, h_Chat_Signal_Org, h_CHAT_SIGNAL_ORG, h_UD_Chat, h_Updates2}

SessionIDs == {<<>>, <<7>>, [i \in 1..32 |-> i]}

CipherSuites == {<<192, 43>>, <<19, 1, 19, 2>>}

CompressionMethods == {<<0>>, <<1, 0>>}

OtherExts == {<<>>, paddingExt, versionsExt \o paddingExt}

defaultHello(serverName) == buildClientHello(serverName, <<>>, <<192, 43>>, <<0>>, <<>>)

\* the bytes a client sends after its ClientHello, and the bytes an upstream sends
Trail(n) == [i \in 1..n |-> 22 + i]

UpstreamSegs(n) == [i \in 1..n |-> <<40 + i>>]

\* how a ClientHello and the bytes after it reach the proxy: in records of their
\* own, in one record, or with the ClientHello split after its third byte
Segmentations(hello, trail) ==
    { <<hello>> \o (IF trail = <<>> THEN <<>> ELSE <<trail>>),
      <<hello \o trail>>,
      <<Take(hello, 3), Drop(hello, 3) \o trail>> }

\* "/ HTTP/1.1\r\nHost: x\r\n\r\n"
httpRest == <<47, 32, 72, 84, 84, 80, 47, 49, 46, 49, 13, 10, 72, 111, 115, 116, 58, 32, 120, 13, 10, 13, 10>>

\* well-formed ClientHello records, each with the host name and session id it carries
HelloInputs ==
    { [kind |-> "hello", name |-> n, sid |-> <<>>, hello |-> defaultHello(n), trail |-> <<>>,
       segs |-> <<defaultHello(n)>>, end |-> EOF, up |-> <<>>, upEnd |-> EOF, hsk |-> "ok"]
      : n \in ServerNames }
    \cup
    { [kind |-> "hello", name |-> h_chat_signal_org, sid |-> q[1],
       hello |-> buildClientHello(h_chat_signal_org, q[1], q[2], q[3], q[4]), trail |-> <<>>,
       segs |-> <<buildClientHello(h_chat_signal_org, q[1], q[2], q[3], q[4])>>,
       end |-> EOF, up |-> <<>>, upEnd |-> EOF, hsk |-> "ok"]
      : q \in SessionIDs \X CipherSuites \X CompressionMethods \X OtherExts }

\* a relayed connection: what follows the ClientHello, how it is segmented, what
\* the upstream sends, and how each stream ends
RelayInputs ==
    UNION { { [kind |-> "hello", name |-> h_chat_signal_org, sid |-> <<>>,
               hello |-> defaultHello(h_chat_signal_org), trail |-> Trail(n),
               segs |-> q[1], end |-> q[2], up |-> UpstreamSegs(q[3]), upEnd |-> q[4],
               hsk |-> "ok"]
              : q \in Segmentations(defaultHello(h_chat_signal_org), Trail(n))
                      \X {EOF, ErrReset, StaysOpen} \X (0..MaxTrail)
                      \X {EOF, ErrReset, StaysOpen} }
            : n \in 0..MaxTrail }

\* streams that are no well-formed ClientHello record
RawStreams ==
    { <<m \o httpRest>> : m \in MethodTokens }
    \cup
    { <<m_GET \o <<47, 32>>>>,                                    \* "GET / " and no more
      <<<<71, 69>>, <<84, 32>> \o httpRest>>,                     \* a GET request in two records
      <<<<103, 101, 116, 32>> \o httpRest>>,                      \* "get / HTTP/1.1 ..."
      <<<<71, 69, 84, 88, 32>> \o httpRest>>,                     \* "GETX / HTTP/1.1 ..."
      <<<<0, 1, 2, 3, 4, 5, 6, 7>>>>,
      <<>>,
      <<<<22, 3, 1>>>>,
      <<<<22>>>>,
      <<<<1, 2, 3>>>>,
      <<<<22, 3, 1, 2, 0, 1, 0, 1>>>>,                            \* a record cut short
      <<<<23, 3, 1, 0, 1, 0, 0, 0>>>>,                            \* an application-data record
      <<<<22, 3, 1>> \o AddUint16LengthPrefixed(<<2, 0, 0, 4, 3, 3, 0, 0>>)>>,   \* ServerHello
      <<defaultHello(<<>>)>>,                                     \* no server_name extension
      <<Take(defaultHello(h_chat_signal_org), Len(defaultHello(h_chat_signal_org)) - 4)>> }

RawInputs ==
    { [kind |-> "raw", name |-> <<>>, sid |-> <<>>, hello |-> <<>>, trail |-> <<>>,
       segs |-> q[1], end |-> q[2], up |-> <<>>, upEnd |-> EOF, hsk |-> "ok"]
      : q \in RawStreams \X {EOF, ErrReset} }

\* clients whose outer TLS handshake fails: the peer closes before or in the middle
\* of a handshake record, or the handshake is rejected; nothing can be read
HandshakeFailures ==
    { [kind |-> "raw", name |-> <<>>, sid |-> <<>>, hello |-> <<>>, trail |-> <<>>,
       segs |-> <<>>, end |-> e, up |-> <<>>, upEnd |-> EOF, hsk |-> e]
      : e \in {EOF, ErrUnexpectedEOF, ErrReset} }

\* server names of an outer ClientHello that are not the configured domain "f.co":
\* "e.co", "f.co.e.co", "fco", no name
OtherSNIs ==
    { <<101, 46, 99, 111>>, <<102, 46, 99, 111, 46, 101, 46, 99, 111>>, <<102, 99, 111>>, <<>> }

\* every connection with the server name of its outer ClientHello: the configured
\* domain as configured or as "F.Co", or another name.  A client of the second
\* kind means to send a ClientHello for chat.signal.org or a request (input.hello,
\* input.kind) and, its handshake failing, gets no tunnel to send it through
Inputs ==
    { [sni |-> <<102, 46, 99, 111>>] @@ i
      : i \in HelloInputs \cup RelayInputs \cup RawInputs \cup HandshakeFailures }
    \cup
    { [sni |-> <<70, 46, 67, 111>>] @@ i
      : i \in { j \in HelloInputs \cup RawInputs :
                  j.name = h_chat_signal_org \/ j.segs = <<m_GET \o httpRest>> } }
    \cup
    { [sni |-> n, segs |-> <<>>, end |-> "tls: handshake failure"] @@ i
      : n \in OtherSNIs,
        i \in { j \in HelloInputs \cup RawInputs :
                  j.name = h_chat_signal_org \/ j.segs = <<m_GET \o httpRest>> } }

\* part_003:30-80: the configurations config.New returns, for the domain "f.co"
Configs ==
    { [Domain |-> <<102, 46, 99, 111>>, StealthMode |-> m, ProxyURL |-> ""]
      : m \in {StealthNone, StealthNginx, StealthApache} }
    \cup { [Domain |-> <<102, 46, 99, 111>>, StealthMode |-> StealthProxy,
             ProxyURL |-> "https://proxy.to"] }

\* the whole stream of bytes the client sends
ClientStream == Flatten(input.segs)

---------------------------------------------------------------------------
(* The connection pipeline (internal/proxy/handler.go) *)

\* most connections the accept loop has handed to HandleConnection goroutines
MaxConns == 2

\* most transient (not 'closed') Accept failures
MaxAcceptErrors == 1

\* server.go:30-34: server.New; nothing listens, no goroutine runs, no signal is
\* pending; cached: the directory "certs" holds a certificate for the domain;
\* rand: the process-wide source of math/rand, as the calls that have changed it
newServer ==
    [main |-> "new", quit |-> "empty", tlsListener |-> "none", httpServer |-> "none",
     acceptLoop |-> "none", wg |-> 0, conns |-> [i \in 1..MaxConns |-> "none"],
     acceptErrors |-> 0, closedReported |-> FALSE, cached |-> FALSE,
     rand |-> [seeds |-> 0, draws |-> 0]]

\* server.go:37-90: the server as a connection handed to HandleConnection finds it:
\* both goroutines started, Start blocked on <-quit
runningServer ==
    [newServer EXCEPT !.main = "waiting", !.tlsListener = "open", !.httpServer = "serving",
                      !.acceptLoop = "running", !.wg = 2]

Init ==
    /\ cfg \in Configs
    /\ input \in Inputs
    /\ clientConn = [rd |-> input.segs, end |-> input.end, wr |-> <<>>,
                     closed |-> FALSE, wclosed |-> FALSE, hs |-> "pending"]
    /\ bufReader = NewReader
    /\ upstreamConn = [state |-> "none", dials |-> <<>>, rd |-> input.up, end |-> input.upEnd,
                       wr |-> <<>>, wclosed |-> FALSE]
    /\ pc = "accepted"
    /\ sniffed = [done |-> FALSE, protocol |-> ProtoUnknown, err |-> nil]
    /\ sig = [done |-> FALSE, serverName |-> <<>>, rawClientHello |-> <<>>, err |-> nil,
              ok |-> FALSE, upstreamAddr |-> <<>>]
    /\ c2u = [st |-> "idle", err |-> nil]
    /\ u2c = [st |-> "idle", err |-> nil]
    /\ px = [st |-> "idle"]
    /\ srv = runningServer

\* a variant of GetCertificate for a certificate manager without a host policy
GetCertificateAnyHost(domain, serverName) == nil

\* server.go:40-48: the certificate callback of the outer handshake, autocert's
\* GetCertificate under HostWhitelist(cfg.Domain): an error for no server name,
\* for a name without an inner dot, and for a name that, lowercased, is not the
\* whitelisted domain; nil when a certificate is handed out
GetCertificate(domain, serverName) ==
    IF serverName = <<>> THEN "acme/autocert: missing server name"
    ELSE IF ~\E i, j, k \in 1..Len(serverName) :
               /\ j < i /\ i < k
               /\ serverName[i] = 46 /\ serverName[j] # 46 /\ serverName[k] # 46
    THEN "acme/autocert: server name component count invalid"
    ELSE IF ToLower(serverName) # ToLower(domain)
    THEN "acme/autocert: host not configured in HostWhitelist"
    ELSE nil

\* a variant of Handshake for a listener that hands out plain TCP connections
HandshakeSkipped(conn, hsk) == conn

\* server.go:57, 103: the connection comes from a tls.Listen listener, which accepts
\* without handshaking; the first Read (sniper.go:26) runs the outer TLS handshake
\* and, when that fails, returns its error and no data
Handshake(conn, hsk) ==
    IF hsk = "ok" THEN [conn EXCEPT !.hs = "done"]
    ELSE [conn EXCEPT !.hs = "failed", !.rd = <<>>, !.end = hsk]

\* handler.go:40-59: wrap the connection, sniff, dispatch; every return closes the
\* connection (defer, line 41).  handleSignalProxy goes on in the actions below.
\* The first read runs the outer handshake, which fails when the certificate
\* callback does, and otherwise ends as the peer makes it end (input.hsk).
HandleConnection ==
    /\ pc = "accepted"
    /\ \E h \in {GetCertificate(cfg.Domain, input.sni)} :
       \E c \in {Handshake(clientConn, IF h # nil THEN h ELSE input.hsk)} :
       \E s \in {sniffProtocol([b |-> NewReader, rd |-> c.rd], c.end)} :
           /\ sniffed' = [done |-> TRUE, protocol |-> s.protocol, err |-> s.err]
           /\ bufReader' = s.r.b
           /\ IF s.err # nil
              THEN /\ clientConn' = [c EXCEPT !.rd = s.r.rd, !.closed = TRUE]
                   /\ pc' = "done"
              ELSE IF s.protocol = ProtoSignalTLS
              THEN /\ clientConn' = [c EXCEPT !.rd = s.r.rd]
                   /\ pc' = "signal"
              ELSE IF s.protocol = ProtoHTTP
              THEN /\ clientConn' = [c EXCEPT !.rd = s.r.rd,
                                              !.wr = @ \o handleStealth(cfg),
                                              !.closed = TRUE]
                   /\ pc' = "done"
              ELSE /\ clientConn' = [c EXCEPT !.rd = s.r.rd, !.closed = TRUE]
                   /\ pc' = "done"
           /\ srv' = IF s.err = nil /\ s.protocol = ProtoHTTP /\ cfg.StealthMode = StealthApache
                     THEN [srv EXCEPT !.rand = reseeded(@)]
                     ELSE srv
    /\ UNCHANGED <<cfg, input, upstreamConn, sig, c2u, u2c, px>>

\* handler.go:63-74: parse the inner ClientHello from the buffered reader, look the
\* server name up; a parse error or an unknown name returns (and closes)
GetSNI ==
    /\ pc = "signal"
    /\ \E g \in {getSNI([b |-> bufReader, rd |-> clientConn.rd], clientConn.end)} :
       \E l \in {lookup(g.serverName)} :
           /\ bufReader' = g.r.b
           /\ IF g.err # nil
              THEN /\ sig' = [sig EXCEPT !.done = TRUE, !.err = g.err]
                   /\ clientConn' = [clientConn EXCEPT !.rd = g.r.rd, !.closed = TRUE]
                   /\ pc' = "done"
              ELSE /\ sig' = [done |-> TRUE, serverName |-> g.serverName,
                              rawClientHello |-> g.raw, err |-> nil,
                              ok |-> l.ok, upstreamAddr |-> l.upstreamAddr]
                   /\ IF l.ok
                      THEN /\ clientConn' = [clientConn EXCEPT !.rd = g.r.rd]
                           /\ pc' = "dial"
                      ELSE /\ clientConn' = [clientConn EXCEPT !.rd = g.r.rd, !.closed = TRUE]
                           /\ pc' = "done"
    /\ UNCHANGED <<cfg, input, upstreamConn, sniffed, c2u, u2c, px, srv>>

\* handler.go:76-81: net.DialTimeout succeeds
DialOK ==
    /\ pc = "dial"
    /\ upstreamConn' = [upstreamConn EXCEPT !.state = "open",
                                            !.dials = Append(@, sig.upstreamAddr)]
    /\ pc' = "hello"
    /\ UNCHANGED <<cfg, input, clientConn, bufReader, sniffed, sig, c2u, u2c, px, srv>>

\* a variant of DialFail that tells the client of the failure: it writes "502"
DialFailAnswers ==
    /\ pc = "dial"
    /\ upstreamConn' = [upstreamConn EXCEPT !.dials = Append(@, sig.upstreamAddr)]
    /\ clientConn' = [clientConn EXCEPT !.wr = Append(@, <<53, 48, 50>>), !.closed = TRUE]
    /\ pc' = "done"
    /\ UNCHANGED <<cfg, input, bufReader, sniffed, sig, c2u, u2c, px, srv>>

\* a variant of DialFail that does not look at the error of net.DialTimeout
DialFailIgnored ==
    /\ pc = "dial"
    /\ upstreamConn' = [upstreamConn EXCEPT !.dials = Append(@, sig.upstreamAddr)]
    /\ pc' = "hello"
    /\ UNCHANGED <<cfg, input, clientConn, bufReader, sniffed, sig, c2u, u2c, px, srv>>

\* handler.go:76-80: net.DialTimeout fails or times out
DialFail ==
    /\ pc = "dial"
    /\ upstreamConn' = [upstreamConn EXCEPT !.dials = Append(@, sig.upstreamAddr)]
    /\ clientConn' = [clientConn EXCEPT !.closed = TRUE]
    /\ pc' = "done"
    /\ UNCHANGED <<cfg, input, bufReader, sniffed, sig, c2u, u2c, px, srv>>

\* handler.go:83-105: the ClientHello is written in full, then the two copy
\* goroutines are started
WriteClientHelloOK ==
    /\ pc = "hello"
    /\ upstreamConn' = [upstreamConn EXCEPT !.wr = @ \o sig.rawClientHello]
    /\ c2u' = [st |-> "run", err |-> nil]
    /\ u2c' = [st |-> "run", err |-> nil]
    /\ pc' = "relay"
    /\ UNCHANGED <<cfg, input, clientConn, bufReader, sniffed, sig, px, srv>>

\* handler.go:83-86: the write fails after n bytes; both sockets are closed on return
WriteClientHelloFail ==
    /\ pc = "hello"
    /\ \E n \in {0, Len(sig.rawClientHello) - 1} :
           upstreamConn' = [upstreamConn EXCEPT !.wr = @ \o Take(sig.rawClientHello, n),
                                                !.state = "closed"]
    /\ clientConn' = [clientConn EXCEPT !.closed = TRUE]
    /\ pc' = "done"
    /\ UNCHANGED <<cfg, input, bufReader, sniffed, sig, c2u, u2c, px, srv>>

\* a variant of CloseWrite that closes the socket altogether
CloseBothSides(conn) ==
    [f \in DOMAIN conn |->
        IF f \in {"wclosed", "closed"} THEN TRUE
        ELSE IF f = "state" THEN "closed"
        ELSE conn[f]]

\* handler.go:95-97, 102-104: tcpConn.CloseWrite(), tlsConn.CloseWrite(): the write
\* side is shut down, the read side stays open
CloseWrite(conn) == [conn EXCEPT !.wclosed = TRUE]

\* handler.go:94: io.Copy(upstreamConn, clientConn) reads the connection itself
copySource(conn, reader) ==
    With(ConnRead(conn.rd, conn.end, copyBufSize), LAMBDA got :
        [data |-> got.data, err |-> got.err, rd |-> got.rd, b |-> reader])

\* a variant of CopyClientToUpstream in which a read error ends the other copy too
CopyClientToUpstreamCancels ==
    /\ pc = "relay"
    /\ c2u.st = "run"
    /\ ~blocked(clientConn)
    /\ \E got \in {copySource(clientConn, bufReader)} :
           /\ clientConn' = [clientConn EXCEPT !.rd = got.rd]
           /\ bufReader' = got.b
           /\ IF got.err # nil
              THEN /\ c2u' = [st |-> "done", err |-> got.err]
                   /\ u2c' = IF got.err = EOF THEN u2c ELSE [st |-> "done", err |-> "cancelled"]
                   /\ upstreamConn' = CloseWrite(upstreamConn)
              ELSE /\ upstreamConn' = [upstreamConn EXCEPT !.wr = @ \o got.data]
                   /\ c2u' = c2u
                   /\ u2c' = u2c
    /\ UNCHANGED <<cfg, input, pc, sniffed, sig, px, srv>>

\* handler.go:92-98, one round of io.Copy(upstreamConn, clientConn): a Read, then
\* a Write of what was read; the copy ends on EOF, on a read error and on a write
\* error, and the goroutine then closes the upstream's write side
CopyClientToUpstream ==
    /\ pc = "relay"
    /\ c2u.st = "run"
    /\ ~blocked(clientConn)
    /\ \E got \in {copySource(clientConn, bufReader)} :
           /\ clientConn' = [clientConn EXCEPT !.rd = got.rd]
           /\ bufReader' = got.b
           /\ IF got.err # nil
              THEN /\ c2u' = [st |-> "done", err |-> got.err]
                   /\ upstreamConn' = CloseWrite(upstreamConn)
              ELSE \/ /\ upstreamConn' = [upstreamConn EXCEPT !.wr = @ \o got.data]
                      /\ c2u' = c2u
                   \/ /\ upstreamConn' = CloseWrite(upstreamConn)
                      /\ c2u' = [st |-> "done", err |-> "write error"]
    /\ UNCHANGED <<cfg, input, pc, sniffed, sig, u2c, px, srv>>

\* a variant of CopyUpstreamToClient that closes the client's write side only when
\* the copy has ended on EOF
CopyUpstreamToClientEOFOnly ==
    /\ pc = "relay"
    /\ u2c.st = "run"
    /\ ~blocked(upstreamConn)
    /\ \E got \in {ConnRead(upstreamConn.rd, upstreamConn.end, copyBufSize)} :
           /\ upstreamConn' = [upstreamConn EXCEPT !.rd = got.rd]
           /\ IF got.err # nil
              THEN /\ u2c' = [st |-> "done", err |-> got.err]
                   /\ clientConn' = IF got.err = EOF THEN CloseWrite(clientConn) ELSE clientConn
              ELSE \/ /\ clientConn' = [clientConn EXCEPT !.wr = Append(@, got.data)]
                      /\ u2c' = u2c
                   \/ /\ clientConn' = clientConn
                      /\ u2c' = [st |-> "done", err |-> "write error"]
    /\ UNCHANGED <<cfg, input, bufReader, pc, sniffed, sig, c2u, px, srv>>

\* handler.go:99-105, one round of io.Copy(clientConn, upstreamConn), and the
\* close of the client's write side when the copy ends
CopyUpstreamToClient ==
    /\ pc = "relay"
    /\ u2c.st = "run"
    /\ ~blocked(upstreamConn)
    /\ \E got \in {ConnRead(upstreamConn.rd, upstreamConn.end, copyBufSize)} :
           /\ upstreamConn' = [upstreamConn EXCEPT !.rd = got.rd]
           /\ IF got.err # nil
              THEN /\ u2c' = [st |-> "done", err |-> got.err]
                   /\ clientConn' = CloseWrite(clientConn)
              ELSE \/ /\ clientConn' = [clientConn EXCEPT !.wr = Append(@, got.data)]
                      /\ u2c' = u2c
                   \/ /\ clientConn' = CloseWrite(clientConn)
                      /\ u2c' = [st |-> "done", err |-> "write error"]
    /\ UNCHANGED <<cfg, input, bufReader, pc, sniffed, sig, c2u, px, srv>>

\* a variant of RelayReturn without the deferred close of the upstream socket
RelayReturnUpstreamOpen ==
    /\ pc = "relay"
    /\ c2u.st = "done"
    /\ u2c.st = "done"
    /\ clientConn' = [clientConn EXCEPT !.closed = TRUE]
    /\ pc' = "done"
    /\ UNCHANGED <<cfg, input, bufReader, upstreamConn, sniffed, sig, c2u, u2c, px, srv>>

\* a variant of RelayReturn that returns as soon as one goroutine is done
RelayReturnFirstDone ==
    /\ pc = "relay"
    /\ c2u.st = "done" \/ u2c.st = "done"
    /\ upstreamConn' = [upstreamConn EXCEPT !.state = "closed"]
    /\ clientConn' = [clientConn EXCEPT !.closed = TRUE]
    /\ pc' = "done"
    /\ UNCHANGED <<cfg, input, bufReader, sniffed, sig, c2u, u2c, px, srv>>

\* handler.go:106-108 and the deferred closes (lines 81, 41): wg.Wait returns when
\* both goroutines are done
RelayReturn ==
    /\ pc = "relay"
    /\ c2u.st = "done"
    /\ u2c.st = "done"
    /\ upstreamConn' = [upstreamConn EXCEPT !.state = "closed"]
    /\ clientConn' = [clientConn EXCEPT !.closed = TRUE]
    /\ pc' = "done"
    /\ UNCHANGED <<cfg, input, bufReader, sniffed, sig, c2u, u2c, px, srv>>

Next ==
    \/ HandleConnection
    \/ GetSNI
    \/ DialOK
    \/ DialFail
    \/ WriteClientHelloOK
    \/ WriteClientHelloFail
    \/ CopyClientToUpstream
    \/ CopyUpstreamToClient
    \/ RelayReturn

Spec == Init /\ [][Next]_vars

---------------------------------------------------------------------------
(* The PROXY responder (internal/stealth, unnamed/part_005).  The request   *)
(* and the proxy URL are byte strings; what is written to the client is     *)
(* text.  net/http and net/url are modelled by the rules that decide        *)
(* between the function's four outcomes.                                     *)

StatusOK == 200

StatusNotFound == 404

StatusInternalServerError == 500

StatusBadGateway == 502

\* http.StatusText
StatusText(code) ==
    CASE code = StatusOK -> "OK"
      [] code = StatusNotFound -> "Not Found"
      [] code = StatusInternalServerError -> "Internal Server Error"
      [] code = StatusBadGateway -> "Bad Gateway"
      [] OTHER -> ""

isLetter(c) == (c >= 65 /\ c <= 90) \/ (c >= 97 /\ c <= 122)

isDigit(c) == c >= 48 /\ c <= 57

\* the position of the first c in s, 0 when there is none
IndexByte(s, c) ==
    IF \E i \in 1..Len(s) : s[i] = c
    THEN CHOOSE i \in 1..Len(s) : s[i] = c /\ \A j \in 1..(i - 1) : s[j] # c
    ELSE 0

\* the position of the last c in s, 0 when there is none
LastIndexByte(s, c) ==
    IF \E i \in 1..Len(s) : s[i] = c
    THEN CHOOSE i \in 1..Len(s) : s[i] = c /\ \A j \in (i + 1)..Len(s) : s[j] # c
    ELSE 0

\* strings.Cut(s, sep) for a one-byte separator
Cut(s, c) ==
    With(IndexByte(s, c), LAMBDA i :
        IF i = 0 THEN [before |-> s, after |-> <<>>, found |-> FALSE]
        ELSE [before |-> Take(s, i - 1), after |-> Drop(s, i), found |-> TRUE])

\* textproto.Reader.ReadLine: up to the next LF, without the line ending; what is
\* left before EOF is a line too; ok is FALSE when nothing is left
readLine(s) ==
    With(IndexByte(s, 10), LAMBDA i :
        IF s = <<>> THEN [ok |-> FALSE, line |-> <<>>, rest |-> <<>>]
        ELSE IF i = 0 THEN [ok |-> TRUE, line |-> s, rest |-> <<>>]
        ELSE [ok |-> TRUE,
              line |-> IF i > 1 /\ s[i - 1] = 13 THEN Take(s, i - 2) ELSE Take(s, i - 1),
              rest |-> Drop(s, i)])

\* textproto.Reader.ReadMIMEHeader: "key: value" lines up to an empty line
RECURSIVE readMIMEHeader(_)
readMIMEHeader(s) ==
    With(readLine(s), LAMBDA l :
        IF ~l.ok THEN FALSE
        ELSE IF l.line = <<>> THEN TRUE
        ELSE IF IndexByte(l.line, 58) <= 1 THEN FALSE
        ELSE readMIMEHeader(l.rest))

\* http.ParseHTTPVersion accepts "HTTP/d.d"
ParseHTTPVersion(vers) ==
    /\ Len(vers) = 8
    /\ Take(vers, 5) = <<72, 84, 84, 80, 47>>
    /\ isDigit(vers[6])
    /\ vers[7] = 46
    /\ isDigit(vers[8])

\* net/http validMethod: a non-empty token
validMethod(method) ==
    /\ method # <<>>
    /\ \A i \in 1..Len(method) :
           isLetter(method[i]) \/ isDigit(method[i])
           \/ method[i] \in {33, 35, 36, 37, 38, 39, 42, 43, 45, 46, 94, 95, 96, 124, 126}

\* net/url stringContainsCTLByte
stringContainsCTLByte(s) == \E i \in 1..Len(s) : s[i] < 32 \/ s[i] = 127

\* net/url getScheme: [scheme, rest, ok]
getScheme(rawURL) ==
    With({ i \in 1..Len(rawURL) :
             ~(isLetter(rawURL[i])
               \/ (i > 1 /\ (isDigit(rawURL[i]) \/ rawURL[i] \in {43, 45, 46}))) },
         LAMBDA stops :
        IF stops = {} THEN [scheme |-> <<>>, rest |-> rawURL, ok |-> TRUE]
        ELSE With(CHOOSE i \in stops : \A j \in stops : i <= j, LAMBDA i :
                 IF rawURL[i] # 58 THEN [scheme |-> <<>>, rest |-> rawURL, ok |-> TRUE]
                 ELSE IF i = 1 THEN [scheme |-> <<>>, rest |-> <<>>, ok |-> FALSE]
                 ELSE [scheme |-> Take(rawURL, i - 1), rest |-> Drop(rawURL, i), ok |-> TRUE]))

\* net/url validOptionalPort: "" or ":" and digits
validOptionalPort(port) ==
    port = <<>> \/ (port[1] = 58 /\ \A i \in 2..Len(port) : isDigit(port[i]))

\* net/url unescape, the check: every "%" is followed by two hex digits
validEscapes(s) ==
    \A i \in 1..Len(s) :
        s[i] = 37 => (i + 2 <= Len(s) /\ \A c \in {s[i + 1], s[i + 2]} :
                isDigit(c) \/ (c >= 65 /\ c <= 70) \/ (c >= 97 /\ c <= 102))

\* url.Parse(proxyURL): [err, Scheme, Host]
urlParse(rawURL) ==
    With(getScheme(rawURL), LAMBDA sch :
        IF stringContainsCTLByte(rawURL)
        THEN [err |-> "invalid control character in URL", Scheme |-> <<>>, Host |-> <<>>]
        ELSE IF ~sch.ok
        THEN [err |-> "missing protocol scheme", Scheme |-> <<>>, Host |-> <<>>]
        ELSE IF ~HasPrefix(sch.rest, <<47>>) /\ sch.scheme # <<>>
        THEN [err |-> nil, Scheme |-> ToLower(sch.scheme), Host |-> <<>>]
        ELSE IF ~HasPrefix(sch.rest, <<47>>) /\ IndexByte(Cut(sch.rest, 47).before, 58) > 0
        THEN [err |-> "first path segment in URL cannot contain colon",
              Scheme |-> <<>>, Host |-> <<>>]
        ELSE IF ~HasPrefix(sch.rest, <<47, 47>>)
        THEN IF validEscapes(sch.rest)
             THEN [err |-> nil, Scheme |-> ToLower(sch.scheme), Host |-> <<>>]
             ELSE [err |-> "invalid URL escape", Scheme |-> <<>>, Host |-> <<>>]
        ELSE
    With(Cut(Drop(sch.rest, 2), 47), LAMBDA authority :
    With(Drop(authority.before, LastIndexByte(authority.before, 64)), LAMBDA host :
    With(LastIndexByte(host, 58), LAMBDA colon :
        IF colon > 0 /\ ~validOptionalPort(Drop(host, colon - 1))
        THEN [err |-> "invalid port after host", Scheme |-> <<>>, Host |-> <<>>]
        ELSE IF ~validEscapes(host) \/ ~validEscapes(authority.after)
        THEN [err |-> "invalid URL escape", Scheme |-> <<>>, Host |-> <<>>]
        ELSE [err |-> nil, Scheme |-> ToLower(sch.scheme), Host |-> host]))))

\* http.ReadRequest(clientReader): the request line "METHOD SP URI SP HTTP/d.d" and
\* the header block; [err, Method]
ReadRequest(stream, end) ==
    With(readLine(stream), LAMBDA first :
    With(Cut(first.line, 32), LAMBDA method :
    With(Cut(method.after, 32), LAMBDA uri :
        IF ~first.ok THEN [err |-> end, Method |-> <<>>]
        ELSE IF ~method.found \/ ~uri.found
        THEN [err |-> "malformed HTTP request", Method |-> <<>>]
        ELSE IF ~validMethod(method.before)
        THEN [err |-> "invalid method", Method |-> <<>>]
        ELSE IF ~ParseHTTPVersion(uri.after)
        THEN [err |-> "malformed HTTP version", Method |-> <<>>]
        ELSE IF uri.before = <<>> \/ stringContainsCTLByte(uri.before)
                \/ ~(uri.before = <<42>> \/ uri.before[1] = 47
                     \/ getScheme(uri.before).scheme # <<>>)
        THEN [err |-> "invalid URI for request", Method |-> <<>>]
        ELSE IF ~readMIMEHeader(first.rest)
        THEN [err |-> "malformed MIME header", Method |-> <<>>]
        ELSE [err |-> nil, Method |-> method.before])))

\* http.DefaultClient.Do(outReq) against a target that answers with target.resp or
\* cannot be reached: [err, resp]
Do(outReq, target) ==
    IF outReq.URL.Scheme \notin {<<104, 116, 116, 112>>, <<104, 116, 116, 112, 115>>}  \* "http", "https"
    THEN [err |-> "unsupported protocol scheme", resp |-> target.resp]
    ELSE IF outReq.URL.Host = <<>>
    THEN [err |-> "http: no Host in request URL", resp |-> target.resp]
    ELSE IF ~target.up THEN [err |-> "dial tcp: connection refused", resp |-> target.resp]
    ELSE [err |-> nil, resp |-> target.resp]

\* the header lines of (http.Header).Write, the keys in sorted order
RECURSIVE headerWrite(_)
headerWrite(h) ==
    IF h = <<>> THEN ""
    ELSE Head(h)[1] \o ": " \o Head(h)[2] \o "\r\n" \o headerWrite(Tail(h))

\* (*http.Response).Write: status line, Content-Length, headers, empty line, body
responseWrite(resp) ==
    "HTTP/" \o ToString(resp.ProtoMajor) \o "." \o ToString(resp.ProtoMinor) \o " "
    \o ToString(resp.StatusCode) \o " " \o StatusText(resp.StatusCode) \o "\r\n"
    \o "Content-Length: " \o ToString(Len(resp.Body)) \o "\r\n"
    \o headerWrite(resp.Header)
    \o "\r\n"
    \o resp.Body

\* part_005:31
internalErrorResponse == "HTTP/1.0 500 Internal Server Error\r\nConnection: close\r\n\r\n"

\* the 502 of stealth/proxy.go:56-60: an http.Response{StatusCode, Body} with no
\* protocol version, written with Response.Write
badGatewayResponseWritten ==
    responseWrite([ProtoMajor |-> 0, ProtoMinor |-> 0, StatusCode |-> StatusBadGateway,
                   Header |-> <<>>, Body |-> ""])

\* part_005:51
badGatewayResponse ==
    "HTTP/1.0 " \o ToString(StatusBadGateway) \o " " \o StatusText(StatusBadGateway)
    \o "\r\nConnection: close\r\n\r\n"

\* the client's requests: the bytes, how the stream ends, and whether the bytes are
\* one complete HTTP request
Requests ==
      \* a GET request: GET / HTTP/1.1\r\nHost: x\r\n\r\n
    { [stream |-> <<71, 69, 84, 32, 47, 32, 72, 84, 84, 80, 47, 49, 46, 49, 13, 10, 72, 111, 115, 116, 58, 32, 120, 13, 10, 13, 10>>, end |-> EOF, readable |-> TRUE],
      \* a POST request with a body: POST /submit HTTP/1.1\r\nHost: x\r\nContent-Length: 2\r\n\r\nhi
      [stream |-> <<80, 79, 83, 84, 32, 47, 115, 117, 98, 109, 105, 116, 32, 72, 84, 84, 80, 47, 49, 46, 49, 13, 10, 72, 111, 115, 116, 58, 32, 120, 13, 10, 67, 111, 110, 116, 101, 110, 116, 45, 76, 101, 110, 103, 116, 104, 58, 32, 50, 13, 10, 13, 10, 104, 105>>, end |-> EOF, readable |-> TRUE],
      \* an HTTP/1.0 request with no header: HEAD / HTTP/1.0\r\n\r\n
      [stream |-> <<72, 69, 65, 68, 32, 47, 32, 72, 84, 84, 80, 47, 49, 46, 48, 13, 10, 13, 10>>, end |-> EOF, readable |-> TRUE],
      \* the client closes without sending: (nothing)
      [stream |-> <<>>, end |-> EOF, readable |-> FALSE],
      \* a request line cut short: GET /
      [stream |-> <<71, 69, 84, 32, 47, 32>>, end |-> EOF, readable |-> FALSE],
      \* a header block that never ends: GET / HTTP/1.1\r\nHost: x\r\n
      [stream |-> <<71, 69, 84, 32, 47, 32, 72, 84, 84, 80, 47, 49, 46, 49, 13, 10, 72, 111, 115, 116, 58, 32, 120, 13, 10>>, end |-> EOF, readable |-> FALSE],
      \* a request line of two fields: GET /\r\n\r\n
      [stream |-> <<71, 69, 84, 32, 47, 13, 10, 13, 10>>, end |-> EOF, readable |-> FALSE],
      \* a malformed protocol version: GET / HTTX/1.1\r\n\r\n
      [stream |-> <<71, 69, 84, 32, 47, 32, 72, 84, 84, 88, 47, 49, 46, 49, 13, 10, 13, 10>>, end |-> EOF, readable |-> FALSE],
      \* a header line without a colon: GET / HTTP/1.1\r\nHost x\r\n\r\n
      [stream |-> <<71, 69, 84, 32, 47, 32, 72, 84, 84, 80, 47, 49, 46, 49, 13, 10, 72, 111, 115, 116, 32, 120, 13, 10, 13, 10>>, end |-> EOF, readable |-> FALSE],
      \* the connection is reset after the request line: GET / HTTP/1.1\r\n
      [stream |-> <<71, 69, 84, 32, 47, 32, 72, 84, 84, 80, 47, 49, 46, 49, 13, 10>>, end |-> ErrReset, readable |-> FALSE] }

\* proxy URLs: the text, whether it is a URL (url.Parse accepts it), and whether an
\* HTTP client can send a request to it
ProxyURLs ==
      \* https://proxy.to
    { [url |-> <<104, 116, 116, 112, 115, 58, 47, 47, 112, 114, 111, 120, 121, 46, 116, 111>>, parses |-> TRUE, fetchable |-> TRUE],
      \* http://127.0.0.1:8081/
      [url |-> <<104, 116, 116, 112, 58, 47, 47, 49, 50, 55, 46, 48, 46, 48, 46, 49, 58, 56, 48, 56, 49, 47>>, parses |-> TRUE, fetchable |-> TRUE],
      \* http://proxy.to:port
      [url |-> <<104, 116, 116, 112, 58, 47, 47, 112, 114, 111, 120, 121, 46, 116, 111, 58, 112, 111, 114, 116>>, parses |-> FALSE, fetchable |-> FALSE],
      \* :bad
      [url |-> <<58, 98, 97, 100>>, parses |-> FALSE, fetchable |-> FALSE],
      \* http://proxy.to/%zz
      [url |-> <<104, 116, 116, 112, 58, 47, 47, 112, 114, 111, 120, 121, 46, 116, 111, 47, 37, 122, 122>>, parses |-> FALSE, fetchable |-> FALSE],
      \* http://pro\x7fxy.to
      [url |-> <<104, 116, 116, 112, 58, 47, 47, 112, 114, 111, 127, 120, 121, 46, 116, 111>>, parses |-> FALSE, fetchable |-> FALSE],
      \* (empty)
      [url |-> <<>>, parses |-> TRUE, fetchable |-> FALSE],
      \* ftp://proxy.to
      [url |-> <<102, 116, 112, 58, 47, 47, 112, 114, 111, 120, 121, 46, 116, 111>>, parses |-> TRUE, fetchable |-> FALSE] }

\* the disguise target: unreachable, or answering with resp; wire is resp as it
\* goes over the wire
Targets ==
    { [up |-> FALSE,
      resp |-> [ProtoMajor |-> 1, ProtoMinor |-> 1, StatusCode |-> StatusBadGateway,
      Header |-> <<>>, Body |-> ""],
      wire |-> ""],
      [up |-> TRUE,
      resp |-> [ProtoMajor |-> 1, ProtoMinor |-> 1, StatusCode |-> StatusOK,
      Header |-> <<<<"Content-Type", "text/plain">>, <<"X-Test-Header", "true">>>>,
      Body |-> "Hello from mock server"],
      wire |-> "HTTP/1.1 200 OK\r\nContent-Length: 22\r\nContent-Type: text/plain\r\nX-Test-Header: true\r\n\r\nHello from mock server"],
      [up |-> TRUE,
      resp |-> [ProtoMajor |-> 1, ProtoMinor |-> 1, StatusCode |-> StatusNotFound,
      Header |-> <<>>, Body |-> ""],
      wire |-> "HTTP/1.1 404 Not Found\r\nContent-Length: 0\r\n\r\n"],
      [up |-> TRUE,
      resp |-> [ProtoMajor |-> 1, ProtoMinor |-> 0, StatusCode |-> StatusOK,
      Header |-> <<<<"Server", "x">>>>, Body |-> "ok"],
      wire |-> "HTTP/1.0 200 OK\r\nContent-Length: 2\r\nServer: x\r\n\r\nok"] }

\* a call of ProxyRequest(clientReader, clientConn, proxyURL) on a fresh connection
InitProxyRequest ==
    /\ cfg = [Domain |-> <<102, 46, 99, 111>>, StealthMode |-> StealthProxy,
              ProxyURL |-> "https://proxy.to"]
    /\ input = [kind |-> "raw", name |-> <<>>, sid |-> <<>>, hello |-> <<>>, trail |-> <<>>,
                segs |-> <<>>, end |-> EOF, up |-> <<>>, upEnd |-> EOF, hsk |-> "ok"]
    /\ clientConn = [rd |-> <<>>, end |-> EOF, wr |-> <<>>, closed |-> FALSE, wclosed |-> FALSE,
                     hs |-> "done"]
    /\ bufReader = NewReader
    /\ upstreamConn = [state |-> "none", dials |-> <<>>, rd |-> <<>>, end |-> EOF,
                       wr |-> <<>>, wclosed |-> FALSE]
    /\ pc = "proxy"
    /\ sniffed = [done |-> FALSE, protocol |-> ProtoUnknown, err |-> nil]
    /\ sig = [done |-> FALSE, serverName |-> <<>>, rawClientHello |-> <<>>, err |-> nil,
              ok |-> FALSE, upstreamAddr |-> <<>>]
    /\ c2u = [st |-> "idle", err |-> nil]
    /\ u2c = [st |-> "idle", err |-> nil]
    /\ \E req \in Requests, proxyURL \in ProxyURLs, target \in Targets :
           px = [st |-> "called", req |-> req, proxyURL |-> proxyURL, target |-> target,
                 clientConn |-> [wr |-> <<>>, closed |-> FALSE]]
    /\ srv = runningServer

\* part_005:14-61: read the request, parse the proxy URL, send the request to the
\* target, write one response; the connection is closed on every return (line 15)
ProxyRequest ==
    /\ px.st = "called"
    /\ \E req \in {ReadRequest(px.req.stream, px.req.end)} :
       \E targetURL \in {urlParse(px.proxyURL.url)} :
       \E got \in {Do([Method |-> req.Method, URL |-> targetURL], px.target)} :
           px' = [px EXCEPT
                    !.st = "returned",
                    !.clientConn =
                        [wr |-> IF req.err # nil THEN <<>>
                                ELSE IF targetURL.err # nil THEN <<internalErrorResponse>>
                                ELSE IF got.err # nil THEN <<badGatewayResponse>>
                                ELSE <<responseWrite(got.resp)>>,
                         closed |-> TRUE]]
    /\ UNCHANGED <<cfg, input, clientConn, bufReader, upstreamConn, pc, sniffed, sig, c2u, u2c, srv>>

NextProxyRequest == ProxyRequest

SpecProxyRequest == InitProxyRequest /\ [][NextProxyRequest]_vars

---------------------------------------------------------------------------
(* The NGINX and APACHE responders called on their own (internal/stealth), *)
(* for a clock reading, a value of rand.Intn(365) and a zone shift.        *)
(* px.lastModified is the instant the Last-Modified header names.          *)

\* clock readings (seconds since 1970): 2025-06-15, 2025-09-01T13:00:00Z,
\* 2026-11-01T17:00:00Z; every value of rand.Intn(365); a local zone whose UTC
\* offset is the same, an hour less or an hour more at the generated date
StealthInputs ==
    [now : {1750000000, 1756731600, 1793552400}, r : 0..364, zoneShift : {-3600, 0, 3600}]

InitStealth ==
    /\ cfg \in { c \in Configs : c.StealthMode \in {StealthNginx, StealthApache} }
    /\ input \in StealthInputs
    /\ clientConn = [rd |-> <<>>, end |-> EOF, wr |-> <<>>, closed |-> FALSE, wclosed |-> FALSE,
                     hs |-> "done"]
    /\ bufReader = NewReader
    /\ upstreamConn = [state |-> "none", dials |-> <<>>, rd |-> <<>>, end |-> EOF,
                       wr |-> <<>>, wclosed |-> FALSE]
    /\ pc = "stealth"
    /\ sniffed = [done |-> TRUE, protocol |-> ProtoHTTP, err |-> nil]
    /\ sig = [done |-> FALSE, serverName |-> <<>>, rawClientHello |-> <<>>, err |-> nil,
              ok |-> FALSE, upstreamAddr |-> <<>>]
    /\ c2u = [st |-> "idle", err |-> nil]
    /\ u2c = [st |-> "idle", err |-> nil]
    /\ px = [st |-> "called"]
    /\ srv = runningServer

\* handler.go:115-117, proxy.go:105-129: the NGINX response for the clock reading
NginxResponse ==
    /\ px.st = "called"
    /\ cfg.StealthMode = StealthNginx
    /\ px' = [st |-> "returned", lastModified |-> nginxLastModified,
              response |-> GetNginxResponse(FormatRFC1123(input.now))]
    /\ UNCHANGED <<cfg, input, clientConn, bufReader, upstreamConn, pc, sniffed, sig, c2u, u2c, srv>>

\* handler.go:118-120, apache.go:42-67: the APACHE response for the clock reading,
\* its Last-Modified from generatePastDate
ApacheResponse ==
    /\ px.st = "called"
    /\ cfg.StealthMode = StealthApache
    /\ \E lm \in {generatePastDate(input.now, input.r, input.zoneShift)} :
           px' = [st |-> "returned", lastModified |-> lm,
                  response |-> GetApacheResponse(FormatRFC1123(input.now), FormatRFC1123(lm))]
    /\ srv' = [srv EXCEPT !.rand = reseeded(@)]
    /\ UNCHANGED <<cfg, input, clientConn, bufReader, upstreamConn, pc, sniffed, sig, c2u, u2c>>

NextStealth ==
    \/ NginxResponse
    \/ ApacheResponse

SpecStealth == InitStealth /\ [][NextStealth]_vars

---------------------------------------------------------------------------
(* The configuration (internal/config, unnamed/part_003) and the start of  *)
(* main (unnamed/part_000).  Flag and environment values are byte strings. *)
(* srv.main = "start" is main before config.New.                           *)

\* the values given on the command line and in the environment: a flag is given
\* or not, os.Getenv returns "" for a variable that is not set (ENV_DOMAIN is the
\* variable DOMAIN)
ConfigInputs ==
    [ flags : [ domain      : { [given |-> FALSE, value |-> <<>>],
                                [given |-> TRUE, value |-> <<>>],
                                [given |-> TRUE, value |-> <<102, 46, 99, 111>>] },            \* "f.co"
                stealthMode : { [given |-> FALSE, value |-> <<>>],
                                [given |-> TRUE, value |-> <<>>],
                                [given |-> TRUE, value |-> <<110, 103, 105, 110, 120>>],       \* "nginx"
                                [given |-> TRUE, value |-> <<97, 112, 97, 99, 104, 101>>],     \* "apache"
                                [given |-> TRUE, value |-> <<112, 114, 111, 120, 121>>],       \* "proxy"
                                [given |-> TRUE, value |-> <<78, 111, 110, 101>>] },           \* "None"
                proxyURL    : { [given |-> FALSE, value |-> <<>>],
                                [given |-> TRUE, value |-> <<104, 116, 116, 112, 58, 47, 47, 112, 46, 116, 111>>] } ],  \* "http://p.to"
      env   : [ ENV_DOMAIN   : { <<>>, <<101, 46, 99, 111>> },                                 \* "e.co"
                STEALTH_MODE : { <<>>,
                                 <<110, 111, 110, 101>>,                                       \* "none"
                                 <<97, 112, 97, 99, 104, 101>>,                                \* "apache"
                                 <<80, 82, 79, 88, 89>>,                                       \* "PROXY"
                                 <<105, 110, 118, 97, 108, 105, 100>> },                       \* "invalid"
                PROXY_URL    : { <<>>,
                                 <<72, 84, 84, 80, 83, 58, 47, 47, 112, 46, 116, 111>>,        \* "HTTPS://p.to"
                                 <<102, 116, 112, 58, 47, 47, 112, 46, 116, 111>>,             \* "ftp://p.to"
                                 <<58, 98, 97, 100>>,                                          \* ":bad"
                                 <<112, 46, 116, 111>> } ] ]                                   \* "p.to"

\* part_003:35-38: flag.Parse leaves a flag that is not given at its default
flagParse(flags) ==
    [domain      |-> IF flags.domain.given THEN flags.domain.value ELSE <<>>,
     stealthMode |-> IF flags.stealthMode.given THEN flags.stealthMode.value
                     ELSE <<110, 103, 105, 110, 120>>,
     proxyURL    |-> IF flags.proxyURL.given THEN flags.proxyURL.value ELSE <<>>]

\* part_003:40-48: the environment fallbacks
resolve(v, env) ==
    [domain      |-> IF v.domain = <<>> THEN env.ENV_DOMAIN ELSE v.domain,
     stealthMode |-> IF v.stealthMode = <<>>
                        \/ (v.stealthMode = <<110, 103, 105, 110, 120>> /\ env.STEALTH_MODE # <<>>)
                     THEN env.STEALTH_MODE ELSE v.stealthMode,
     proxyURL    |-> IF v.proxyURL = <<>> THEN env.PROXY_URL ELSE v.proxyURL]

\* a variant of validate that takes any proxy URL url.Parse accepts
validateAnyScheme(v) ==
    With(ToLower(v.stealthMode), LAMBDA mode :
    With([Domain |-> v.domain, StealthMode |-> "", ProxyURL |-> v.proxyURL], LAMBDA c :
        IF v.domain = <<>> THEN [fatal |-> TRUE, cfg |-> c]
        ELSE IF mode = <<110, 103, 105, 110, 120>>
        THEN [fatal |-> FALSE, cfg |-> [c EXCEPT !.StealthMode = StealthNginx]]
        ELSE IF mode = <<97, 112, 97, 99, 104, 101>>
        THEN [fatal |-> FALSE, cfg |-> [c EXCEPT !.StealthMode = StealthApache]]
        ELSE IF mode = <<112, 114, 111, 120, 121>>
        THEN [fatal |-> v.proxyURL = <<>> \/ urlParse(v.proxyURL).err # nil,
              cfg |-> [c EXCEPT !.StealthMode = StealthProxy]]
        ELSE IF mode = <<110, 111, 110, 101>>
        THEN [fatal |-> FALSE, cfg |-> [c EXCEPT !.StealthMode = StealthNone]]
        ELSE [fatal |-> TRUE, cfg |-> c]))

\* part_003:50-79: log.Fatal (fatal) or the Config returned
validate(v) ==
    With(ToLower(v.stealthMode), LAMBDA mode :
    With([Domain |-> v.domain, StealthMode |-> "", ProxyURL |-> v.proxyURL], LAMBDA c :
        IF v.domain = <<>> THEN [fatal |-> TRUE, cfg |-> c]
        ELSE IF mode = <<110, 103, 105, 110, 120>>                      \* "nginx"
        THEN [fatal |-> FALSE, cfg |-> [c EXCEPT !.StealthMode = StealthNginx]]
        ELSE IF mode = <<97, 112, 97, 99, 104, 101>>                    \* "apache"
        THEN [fatal |-> FALSE, cfg |-> [c EXCEPT !.StealthMode = StealthApache]]
        ELSE IF mode = <<112, 114, 111, 120, 121>>                      \* "proxy"
        THEN [fatal |-> \/ v.proxyURL = <<>>
                        \/ urlParse(v.proxyURL).err # nil
                        \/ urlParse(v.proxyURL).Scheme \notin
                               {<<104, 116, 116, 112>>, <<104, 116, 116, 112, 115>>},
              cfg |-> [c EXCEPT !.StealthMode = StealthProxy]]
        ELSE IF mode = <<110, 111, 110, 101>>                           \* "none"
        THEN [fatal |-> FALSE, cfg |-> [c EXCEPT !.StealthMode = StealthNone]]
        ELSE [fatal |-> TRUE, cfg |-> c]))

InitStartup ==
    /\ input \in ConfigInputs
    /\ cfg = [Domain |-> <<>>, StealthMode |-> "", ProxyURL |-> <<>>]
    /\ clientConn = [rd |-> <<>>, end |-> EOF, wr |-> <<>>, closed |-> FALSE, wclosed |-> FALSE,
                     hs |-> "pending"]
    /\ bufReader = NewReader
    /\ upstreamConn = [state |-> "none", dials |-> <<>>, rd |-> <<>>, end |-> EOF,
                       wr |-> <<>>, wclosed |-> FALSE]
    /\ pc = "idle"
    /\ sniffed = [done |-> FALSE, protocol |-> ProtoUnknown, err |-> nil]
    /\ sig = [done |-> FALSE, serverName |-> <<>>, rawClientHello |-> <<>>, err |-> nil,
              ok |-> FALSE, upstreamAddr |-> <<>>]
    /\ c2u = [st |-> "idle", err |-> nil]
    /\ u2c = [st |-> "idle", err |-> nil]
    /\ px = [st |-> "idle"]
    /\ srv = [newServer EXCEPT !.main = "start"]

\* part_000:14-18: main calls config.New, which ends the process or returns the
\* Config that server.New gets
New ==
    /\ srv.main = "start"
    /\ \E r \in {validate(resolve(flagParse(input.flags), input.env))} :
           IF r.fatal
           THEN /\ srv' = [srv EXCEPT !.main = "fatal"]
                /\ cfg' = cfg
           ELSE /\ srv' = [srv EXCEPT !.main = "new"]
                /\ cfg' = r.cfg
    /\ UNCHANGED <<input, clientConn, bufReader, upstreamConn, pc, sniffed, sig, c2u, u2c, px>>

---------------------------------------------------------------------------
(* The server lifecycle (internal/server/server.go, main)                  *)
(*                                                                         *)
(* srv.main is the position of the main goroutine: "new" (before Start),   *)
(* "listening" (tls.Listen has returned, no goroutine started yet),        *)
(* "waiting" (blocked on <-quit), "stop" (in stop, the listener closed),   *)
(* "stopping" (inside httpServer.Shutdown),                                *)
(* "wgwait" (blocked on wg.Wait), "returned" (Start has returned to main), *)
(* "exited" (main has returned), "fatal" (log.Fatalf ended the process).   *)
(* srv.conns[i] is the HandleConnection goroutine of the i-th accepted     *)
(* connection: "none", "accepted" (Accept has returned it, the go          *)
(* statement has not run), "handling", "closed" (it returned) or "killed"  *)
(* (the process ended before it returned).  srv.acceptLoop is "running" at *)
(* Accept and "accepted" between Accept's return and the go statement.     *)

\* the variables of one connection's pipeline, which the server's steps leave alone
pipelineVars == <<cfg, input, clientConn, bufReader, upstreamConn, pc, sniffed, sig, c2u, u2c, px>>

\* the signals Start subscribes to (server.go:89)
Signals == {"SIGINT", "SIGTERM"}

\* the process is alive: main has not returned and log.Fatalf has not run
alive == srv.main \notin {"exited", "fatal"}

\* the end of the process: every goroutine still running stops where it is
exit(conns) ==
    [i \in DOMAIN conns |-> IF conns[i] \in {"accepted", "handling"} THEN "killed" ELSE conns[i]]

InitServer ==
    /\ cfg \in Configs
    /\ input = [kind |-> "raw", name |-> <<>>, sid |-> <<>>, hello |-> <<>>, trail |-> <<>>,
                segs |-> <<>>, end |-> EOF, up |-> <<>>, upEnd |-> EOF, hsk |-> "ok"]
    /\ clientConn = [rd |-> <<>>, end |-> EOF, wr |-> <<>>, closed |-> FALSE, wclosed |-> FALSE,
                     hs |-> "pending"]
    /\ bufReader = NewReader
    /\ upstreamConn = [state |-> "none", dials |-> <<>>, rd |-> <<>>, end |-> EOF,
                       wr |-> <<>>, wclosed |-> FALSE]
    /\ pc = "idle"
    /\ sniffed = [done |-> FALSE, protocol |-> ProtoUnknown, err |-> nil]
    /\ sig = [done |-> FALSE, serverName |-> <<>>, rawClientHello |-> <<>>, err |-> nil,
              ok |-> FALSE, upstreamAddr |-> <<>>]
    /\ c2u = [st |-> "idle", err |-> nil]
    /\ u2c = [st |-> "idle", err |-> nil]
    /\ px = [st |-> "idle"]
    /\ \E c \in BOOLEAN : srv = [newServer EXCEPT !.cached = c]

\* server.go:37-62: the certificate manager and the http.Server value are built
\* (nothing listens on :80 yet), then tls.Listen opens :443
Start ==
    /\ srv.main = "new"
    /\ srv' = [srv EXCEPT !.main = "listening", !.tlsListener = "open"]
    /\ UNCHANGED pipelineVars

\* server.go:64-90: the goroutine that runs ListenAndServe and the goroutine that
\* runs acceptLoop are started, the signal channel is subscribed and Start blocks
\* on <-quit
StartServices ==
    /\ srv.main = "listening"
    /\ srv' = [srv EXCEPT !.main = "waiting", !.httpServer = "starting",
                          !.acceptLoop = "running", !.wg = 2]
    /\ UNCHANGED pipelineVars

\* server.go:58-61: tls.Listen fails and log.Fatalf ends the process
StartListenFails ==
    /\ srv.main = "new"
    /\ srv' = [srv EXCEPT !.main = "fatal"]
    /\ UNCHANGED pipelineVars

\* server.go:72: ListenAndServe has bound :80 and serves
ListenAndServe ==
    /\ alive
    /\ srv.httpServer = "starting"
    /\ srv' = [srv EXCEPT !.httpServer = "serving"]
    /\ UNCHANGED pipelineVars

\* server.go:72-74: ListenAndServe returns an error other than ErrServerClosed
\* and log.Fatalf ends the process
ListenAndServeFails ==
    /\ alive
    /\ srv.httpServer = "starting"
    /\ srv' = [srv EXCEPT !.main = "fatal", !.httpServer = "stopped", !.conns = exit(srv.conns)]
    /\ UNCHANGED pipelineVars

\* a variant of Accept for a loop that calls HandleConnection itself, without `go`:
\* it is back at Accept only when the connection it took has been handled
AcceptInline ==
    /\ alive
    /\ srv.acceptLoop = "running"
    /\ srv.tlsListener = "open"
    /\ \A j \in 1..MaxConns : srv.conns[j] # "handling"
    /\ \E i \in 1..MaxConns :
        /\ srv.conns[i] = "none"
        /\ \A j \in 1..(i - 1) : srv.conns[j] # "none"
        /\ srv' = [srv EXCEPT !.conns[i] = "accepted", !.acceptLoop = "accepted"]
    /\ UNCHANGED pipelineVars

\* server.go:103: Accept returns a connection
Accept ==
    /\ alive
    /\ srv.acceptLoop = "running"
    /\ srv.tlsListener = "open"
    /\ \E i \in 1..MaxConns :
        /\ srv.conns[i] = "none"
        /\ \A j \in 1..(i - 1) : srv.conns[j] # "none"
        /\ srv' = [srv EXCEPT !.conns[i] = "accepted", !.acceptLoop = "accepted"]
    /\ UNCHANGED pipelineVars

\* server.go:112: go proxy.HandleConnection(conn, s.cfg): the connection gets a
\* goroutine of its own and the loop is back at Accept
goHandleConnection ==
    /\ alive
    /\ srv.acceptLoop = "accepted"
    /\ \E i \in 1..MaxConns :
        /\ srv.conns[i] = "accepted"
        /\ srv' = [srv EXCEPT !.conns[i] = "handling", !.acceptLoop = "running"]
    /\ UNCHANGED pipelineVars

\* a variant of AcceptError for a loop that breaks on every Accept error
AcceptErrorBreaks ==
    /\ alive
    /\ srv.acceptLoop = "running"
    /\ srv.tlsListener = "open"
    /\ srv.acceptErrors < MaxAcceptErrors
    /\ srv' = [srv EXCEPT !.acceptErrors = @ + 1, !.acceptLoop = "exited", !.wg = @ - 1]
    /\ UNCHANGED pipelineVars

\* server.go:103-110: Accept fails on an open listener; the error is logged and
\* the loop goes on
AcceptError ==
    /\ alive
    /\ srv.acceptLoop = "running"
    /\ srv.tlsListener = "open"
    /\ srv.acceptErrors < MaxAcceptErrors
    /\ srv' = [srv EXCEPT !.acceptErrors = @ + 1]
    /\ UNCHANGED pipelineVars

\* a variant of acceptLoopClosed for a loop that does not tell net.ErrClosed from
\* other Accept errors: the error is logged and the loop goes on
acceptLoopClosedContinues(s) == [s EXCEPT !.closedReported = TRUE]

\* server.go:104-108, 79-82: Accept on the closed listener fails with net.ErrClosed;
\* the loop breaks without logging it and the goroutine's deferred wg.Done runs
acceptLoopClosed(s) == [s EXCEPT !.acceptLoop = "exited", !.wg = @ - 1]

AcceptClosed ==
    /\ alive
    /\ srv.acceptLoop = "running"
    /\ srv.tlsListener = "closed"
    /\ srv' = acceptLoopClosed(srv)
    /\ UNCHANGED pipelineVars

\* handler.go:19-20: a HandleConnection goroutine returns (its relay ended because
\* its peers closed, or it closed the connection itself)
HandleConnectionReturn(i) ==
    /\ alive
    /\ srv.conns[i] = "handling"
    /\ srv' = [srv EXCEPT !.conns[i] = "closed"]
    /\ UNCHANGED pipelineVars

\* server.go:88-89: the runtime puts a subscribed signal into the one-slot channel
\* (a signal that finds the slot full is dropped); before signal.Notify the
\* signal's default action ends the process
Signal ==
    /\ alive
    /\ \E sg \in Signals :
        \/ /\ srv.main \in {"new", "listening"}
           /\ srv' = [srv EXCEPT !.main = "fatal"]
        \/ /\ srv.main \notin {"new", "listening"}
           /\ srv.quit = "empty"
           /\ srv' = [srv EXCEPT !.quit = sg]
    /\ UNCHANGED pipelineVars

\* a variant of stop that calls httpServer.Shutdown before it closes the listener
stopShutdownFirst ==
    /\ srv.main = "waiting"
    /\ srv.quit # "empty"
    /\ srv' = [srv EXCEPT !.main = "stop", !.quit = "empty", !.httpServer = "shutdown"]
    /\ UNCHANGED pipelineVars

\* server.go:90-93, 117-127: <-quit receives and stop closes the TLS listener
stop ==
    /\ srv.main = "waiting"
    /\ srv.quit # "empty"
    /\ srv' = [srv EXCEPT !.main = "stop", !.quit = "empty", !.tlsListener = "closed"]
    /\ UNCHANGED pipelineVars

\* server.go:129: stop calls httpServer.Shutdown, which closes the :80 listener
\* at once
Shutdown ==
    /\ srv.main = "stop"
    /\ srv' = [srv EXCEPT !.main = "stopping", !.httpServer = "shutdown"]
    /\ UNCHANGED pipelineVars

\* server.go:129-132, 96: Shutdown returns (its connections are idle or the
\* 30-second context expired), stop returns and Start blocks on wg.Wait
ShutdownReturn ==
    /\ srv.main = "stopping"
    /\ srv' = [srv EXCEPT !.main = "wgwait"]
    /\ UNCHANGED pipelineVars

\* server.go:70-76: after Shutdown, ListenAndServe returns http.ErrServerClosed and
\* the goroutine's deferred wg.Done runs
ListenAndServeReturn ==
    /\ alive
    /\ srv.httpServer = "shutdown"
    /\ srv' = [srv EXCEPT !.httpServer = "stopped", !.wg = @ - 1]
    /\ UNCHANGED pipelineVars

\* server.go:96-98: wg.Wait returns when both goroutines have called Done, and
\* Start returns to main
StartReturn ==
    /\ srv.main = "wgwait"
    /\ srv.wg = 0
    /\ srv' = [srv EXCEPT !.main = "returned"]
    /\ UNCHANGED pipelineVars

\* part_000:21-22: srv.Start() is main's last statement; main returns and the
\* process ends, whatever goroutines are still running
mainReturn ==
    /\ srv.main = "returned"
    /\ srv' = [srv EXCEPT !.main = "exited", !.conns = exit(srv.conns)]
    /\ UNCHANGED pipelineVars

NextServer ==
    \/ Start
    \/ StartListenFails
    \/ StartServices
    \/ ListenAndServe
    \/ ListenAndServeFails
    \/ Accept
    \/ goHandleConnection
    \/ AcceptError
    \/ AcceptClosed
    \/ \E i \in 1..MaxConns : HandleConnectionReturn(i)
    \/ Signal
    \/ stop
    \/ Shutdown
    \/ ShutdownReturn
    \/ ListenAndServeReturn
    \/ StartReturn
    \/ mainReturn

\* the Go scheduler runs every goroutine that can take a step: the main goroutine
\* once it can receive from quit, return from Shutdown, pass wg.Wait or return,
\* the accept loop once Accept has returned a connection or has failed, the HTTP
\* goroutine once ListenAndServe has returned.  Nothing obliges a signal to arrive or a connection to end.
FairServer ==
    /\ WF_vars(StartServices)
    /\ WF_vars(stop)
    /\ WF_vars(Shutdown)
    /\ WF_vars(ShutdownReturn)
    /\ WF_vars(goHandleConnection)
    /\ WF_vars(AcceptClosed)
    /\ WF_vars(ListenAndServeReturn)
    /\ WF_vars(StartReturn)
    /\ WF_vars(mainReturn)

SpecServer == InitServer /\ [][NextServer]_vars /\ FairServer

\* main from its first statement to the opening of the TLS listener
NextStartup ==
    \/ New
    \/ Start
    \/ StartListenFails

SpecStartup == InitStartup /\ [][NextStartup]_vars

---------------------------------------------------------------------------
(* getSNI called on a reader of its own, as TestGetSNI calls it             *)
(* (unnamed/part_006:144-200), for records that are and are not well        *)
(* formed.  Each input states how its record was built (defect) and, where   *)
(* its first server_name extension starts with a host_name entry, that        *)
(* entry's host name (first).                                               *)

\* the fields of a ClientHello record as the bytes that go on the wire, length
\* prefixes included, so that a prefix can state a length the field does not have;
\* hsExtra and recExtra are added to the handshake and the record length, cut
\* bytes are taken off the record's end and tail follows the record
craftRecord(p) ==
    LET body == U16(771) \o [i \in 1..32 |-> 0] \o p.sid \o p.cs \o p.cm \o p.exts
        n == Len(body) + p.hsExtra
        msg == <<p.msgType>> \o <<n \div 65536, (n \div 256) % 256, n % 256>> \o body
        rec == <<p.recType>> \o U16(769) \o U16(Len(msg) + p.recExtra) \o msg
    IN  Take(rec, Len(rec) - p.cut) \o p.tail

\* part_006:84-141: the record buildTestClientHello builds around an extension block
helloFields(extensions) ==
    [recType |-> RecordTypeHandshake, msgType |-> MsgTypeClientHello, hsExtra |-> 0,
     recExtra |-> 0, sid |-> <<0>>, cs |-> <<0, 2, 192, 43>>, cm |-> <<1, 0>>,
     exts |-> AddUint16LengthPrefixed(extensions), cut |-> 0, tail |-> <<>>]

\* one entry of a server_name list, and a server_name extension around a list
sniEntry(nameType, hostName) == <<nameType>> \o AddUint16LengthPrefixed(hostName)

sniExt(serverNameList) ==
    U16(0) \o AddUint16LengthPrefixed(AddUint16LengthPrefixed(serverNameList))

\* records with one defect each, by the defect
MalformedRecords ==
    LET a == h_chat_signal_org
        ok == helloFields(serverNameExt(a))
    IN  { [defect |-> "stream shorter than 5 + L", p |-> [cut |-> 4] @@ ok],
          [defect |-> "stream shorter than 5 + L", p |-> [recExtra |-> 3] @@ ok],
          [defect |-> "stream shorter than 5 + L", p |-> [cut |-> Len(craftRecord(ok)) - 3] @@ ok],
          [defect |-> "stream shorter than 5 + L", p |-> [cut |-> Len(craftRecord(ok))] @@ ok],
          [defect |-> "first byte not 0x16", p |-> [recType |-> 23] @@ ok],
          [defect |-> "first byte not 0x16", p |-> [recType |-> 23, cut |-> 4] @@ ok],
          [defect |-> "first byte not 0x16", p |-> [recType |-> 71, recExtra |-> 3] @@ ok],
          [defect |-> "handshake type not 1", p |-> [msgType |-> 2] @@ ok],
          [defect |-> "handshake length past the record", p |-> [hsExtra |-> 5] @@ ok],
          [defect |-> "session id length past the record", p |-> [sid |-> <<200>>] @@ ok],
          [defect |-> "cipher suites length past the record", p |-> [cs |-> <<1, 0, 192, 43>>] @@ ok],
          [defect |-> "compression methods length past the record", p |-> [cm |-> <<200, 0>>] @@ ok],
          [defect |-> "extensions length past the record",
           p |-> [exts |-> U16(Len(serverNameExt(a)) + 7) \o serverNameExt(a)] @@ ok],
          [defect |-> "extension length past the record",
           p |-> helloFields(U16(23) \o U16(500) \o serverNameExt(a))],
          [defect |-> "server_name list length past the record",
           p |-> helloFields(U16(0) \o AddUint16LengthPrefixed(U16(300) \o sniEntry(0, a)))],
          [defect |-> "host name length past the record",
           p |-> helloFields(sniExt(<<0>> \o U16(300) \o a))],
          [defect |-> "no extensions block", p |-> [exts |-> <<>>] @@ ok],
          [defect |-> "no server_name extension", p |-> helloFields(paddingExt)],
          [defect |-> "no server_name extension", p |-> helloFields(versionsExt \o paddingExt)],
          [defect |-> "no server_name extension", p |-> helloFields(<<>>)] }

\* records whose extension block holds a server_name extension, with the first
\* entry of the first such extension: its name_type and host name
ServerNameRecords ==
    LET a == h_chat_signal_org
        b == h_evil
    IN  { [defect |-> "none", nameType |-> 0, first |-> a, p |-> helloFields(x)]
          : x \in { serverNameExt(a),
                    paddingExt \o versionsExt \o serverNameExt(a),
                    serverNameExt(a) \o serverNameExt(b),
                    sniExt(sniEntry(0, a) \o sniEntry(0, b)),
                    sniExt(sniEntry(0, a) \o sniEntry(1, b)) \o paddingExt } }
        \cup
        { [defect |-> "later extension malformed", nameType |-> 0, first |-> a, p |-> helloFields(x)]
          : x \in { serverNameExt(a) \o <<0, 23, 1>>,
                    serverNameExt(a) \o U16(23) \o U16(500),
                    serverNameExt(a) \o sniExt(sniEntry(1, b)),
                    sniExt(sniEntry(0, a) \o <<0, 0>>) } }
        \cup
        { [defect |-> "first entry no host_name", nameType |-> 1, first |-> a, p |-> helloFields(x)]
          : x \in { sniExt(sniEntry(1, a)),
                    sniExt(sniEntry(1, a) \o sniEntry(0, b)),
                    sniExt(sniEntry(1, a)) \o serverNameExt(b) } }
        \cup
        { [defect |-> "first entry empty host name", nameType |-> 0, first |-> <<>>, p |-> helloFields(x)]
          : x \in { sniExt(sniEntry(0, <<>>)),
                    sniExt(sniEntry(0, <<>>) \o sniEntry(0, b)),
                    sniExt(sniEntry(0, <<>>)) \o serverNameExt(b) } }

\* how a stream reaches the reader: nothing to read, in one read, or split after
\* its third byte
splits(stream) ==
    IF stream = <<>> THEN {<<>>}
    ELSE IF Len(stream) <= 3 THEN {<<stream>>}
    ELSE {<<stream>>, <<Take(stream, 3), Drop(stream, 3)>>}

\* every record alone and followed by two bytes of a next record (a record cut
\* short is followed by nothing), the stream ending in EOF or in a connection reset
GetSNIInputs ==
    UNION { { [defect |-> c.defect, nameType |-> c.nameType, first |-> c.first,
               record |-> craftRecord(c.p), tail |-> q[1], segs |-> q[2], end |-> q[3]]
              : q \in UNION { {t} \X splits(craftRecord(c.p) \o t) \X {EOF, ErrReset}
                              : t \in IF c.p.cut = 0 /\ c.p.recExtra = 0
                                      THEN {<<>>, <<23, 3>>} ELSE {<<>>} } }
            : c \in { [nameType |-> 0, first |-> <<>>] @@ m : m \in MalformedRecords }
                    \cup ServerNameRecords }

InitGetSNI ==
    /\ cfg \in { c \in Configs : c.StealthMode = StealthNone }
    /\ input \in GetSNIInputs
    /\ clientConn = [rd |-> input.segs, end |-> input.end, wr |-> <<>>, closed |-> FALSE,
                     wclosed |-> FALSE, hs |-> "done"]
    /\ bufReader = NewReader
    /\ upstreamConn = [state |-> "none", dials |-> <<>>, rd |-> <<>>, end |-> EOF,
                       wr |-> <<>>, wclosed |-> FALSE]
    /\ pc = "test"
    /\ sniffed = [done |-> FALSE, protocol |-> ProtoUnknown, err |-> nil]
    /\ sig = [done |-> FALSE, serverName |-> <<>>, rawClientHello |-> <<>>, err |-> nil,
              ok |-> FALSE, upstreamAddr |-> <<>>]
    /\ c2u = [st |-> "idle", err |-> nil]
    /\ u2c = [st |-> "idle", err |-> nil]
    /\ px = [st |-> "idle"]
    /\ srv = runningServer

\* part_006:189: sni, raw, err := getSNI(tc.input)
CallGetSNI ==
    /\ pc = "test"
    /\ \E g \in {getSNI([b |-> bufReader, rd |-> clientConn.rd], clientConn.end)} :
           /\ sig' = [sig EXCEPT !.done = TRUE, !.serverName = g.serverName,
                                 !.rawClientHello = g.raw, !.err = g.err]
           /\ bufReader' = g.r.b
           /\ clientConn' = [clientConn EXCEPT !.rd = g.r.rd]
    /\ pc' = "returned"
    /\ UNCHANGED <<cfg, input, upstreamConn, sniffed, c2u, u2c, px, srv>>

SpecGetSNI == InitGetSNI /\ [][CallGetSNI]_vars

---------------------------------------------------------------------------
(* The claims.  Each input record carries what the peer meant to send      *)
(* (name, sid, hello, trail, readable, parses, wire), stated when the input *)
(* is built; the formulas compare what the program did against that.        *)

\* the connection has just been sniffed and nothing else has read from it
JustSniffed == sniffed.done /\ ~sig.done /\ pc \in {"signal", "done"}

\* the client's stream starts with a method token and its space
StartsWithMethod == \E m \in MethodTokens : HasPrefix(ClientStream, m)

\* the upstream address the table of the specification gives a lowercase name
ExpectedUpstream(lower) ==
    IF lower = h_ud_chat_signal_org THEN h_chat_signal_org \o port443 ELSE lower \o port443

\* both copies ran to the end of their streams and every write succeeded
RelayedToEOF ==
    /\ pc = "done"
    /\ c2u = [st |-> "done", err |-> EOF]
    /\ u2c = [st |-> "done", err |-> EOF]

\* C1 (as claimed): when both streams have been relayed to their end, the upstream
\* has received the raw ClientHello followed by every byte the client sent after
\* it, the bytes already held by the buffered reader included, and the client has
\* received the upstream's stream.
C1_RelayPreservesBytes ==
    RelayedToEOF =>
        /\ upstreamConn.wr = input.hello \o input.trail
        /\ Flatten(clientConn.wr) = Flatten(input.up)

\* C2 (as claimed): for every well-formed ClientHello record with SNI host name s,
\* whatever its session id, cipher suites, compression methods and earlier
\* extensions, getSNI succeeds and returns s.
C2_GetSNIReturnsName ==
    (input.kind = "hello" /\ sig.done) => (sig.err = nil /\ sig.serverName = input.name)

\* C3: the raw ClientHello getSNI returns is the first 5 + L bytes of the client's
\* stream, L being the record length in bytes 4 and 5; before the copy tasks start
\* the upstream has been written a prefix of it only, and once they have started
\* the upstream's bytes begin with the whole of it.
C3_RawClientHelloFirst ==
    /\ (sig.done /\ sig.err = nil) =>
           /\ Len(sig.rawClientHello) = RecordHeaderLen + BigEndian(SubSeq(ClientStream, 4, 5))
           /\ sig.rawClientHello = Take(ClientStream, Len(sig.rawClientHello))
    /\ c2u.st = "idle" => HasPrefix(sig.rawClientHello, upstreamConn.wr)
    /\ c2u.st # "idle" =>
           /\ HasPrefix(upstreamConn.wr, sig.rawClientHello)
           /\ HasPrefix(upstreamConn.wr, Take(ClientStream, Len(sig.rawClientHello)))

\* C3 witness: the relay has written bytes to the upstream after the ClientHello
C3_Witness ==
    /\ pc = "relay"
    /\ sig.rawClientHello # <<>>
    /\ Len(upstreamConn.wr) > Len(sig.rawClientHello)

C5_RoutingCaseInsensitive ==
    (sig.done /\ sig.err = nil) =>
        /\ Cardinality(DOMAIN signalUpstreams) = 13
        /\ sig.ok <=> ToLower(sig.serverName) \in DOMAIN signalUpstreams
        /\ sig.ok => sig.upstreamAddr = ExpectedUpstream(ToLower(sig.serverName))
        /\ \A t \in ServerNames :
               ToLower(t) = ToLower(sig.serverName) =>
                   lookup(t) = [ok |-> sig.ok, upstreamAddr |-> sig.upstreamAddr]
        /\ sig.serverName \in {h_Chat_Signal_Org, h_CHAT_SIGNAL_ORG, h_UD_Chat} =>
               (sig.ok /\ sig.upstreamAddr = h_chat_signal_org \o port443)
        /\ sig.serverName = h_Updates2 =>
               (sig.ok /\ sig.upstreamAddr = h_updates2_signal_org \o port443)

\* C5 witness: "UD-Chat.signal.org" has been routed to chat.signal.org:443
C5_Witness ==
    /\ sig.done
    /\ sig.serverName = h_UD_Chat
    /\ sig.ok
    /\ sig.upstreamAddr = h_chat_signal_org \o port443

\* C6: a stream whose first byte is 0x16, of 8 bytes or more or of fewer bytes
\* ending in EOF, is classified INNER_TLS with no error.
C6_HandshakeByteIsSignalTLS ==
    (sniffed.done /\ ClientStream # <<>> /\ ClientStream[1] = RecordTypeHandshake
     /\ (Len(ClientStream) >= PeekLen \/ input.end = EOF)) =>
        (sniffed.protocol = ProtoSignalTLS /\ sniffed.err = nil)

\* C6 witness: the one-byte stream 0x16 ending in EOF has been classified
C6_Witness ==
    /\ sniffed.done
    /\ ClientStream = <<RecordTypeHandshake>>
    /\ input.end = EOF
    /\ sniffed.protocol = ProtoSignalTLS

\* C7 (as claimed): every stream that begins with a method token and a space is
\* classified HTTP, streams of fewer than 8 bytes ending in EOF included.
C7_MethodTokenIsHTTP ==
    (sniffed.done /\ StartsWithMethod /\ (Len(ClientStream) >= PeekLen \/ input.end = EOF)) =>
        (sniffed.protocol = ProtoHTTP /\ sniffed.err = nil)

\* C7 (amended): a stream of 8 bytes or more that begins with a method token and a
\* space is classified HTTP; a stream of fewer than 8 bytes ending in EOF whose
\* first byte is not 0x16 is classified UNKNOWN with no error, whatever it begins
\* with.
C7_MethodTokenIsHTTPWhenEightBytes ==
    /\ (sniffed.done /\ StartsWithMethod /\ Len(ClientStream) >= PeekLen) =>
           (sniffed.protocol = ProtoHTTP /\ sniffed.err = nil)
    /\ (sniffed.done /\ Len(ClientStream) < PeekLen /\ input.end = EOF
        /\ (ClientStream = <<>> \/ ClientStream[1] # RecordTypeHandshake)) =>
           (sniffed.protocol = ProtoUnknown /\ sniffed.err = nil)

\* C7 witness: the six bytes "GET / " ending in EOF have been classified UNKNOWN
C7_Witness ==
    /\ sniffed.done
    /\ ClientStream = m_GET \o <<47, 32>>
    /\ input.end = EOF
    /\ sniffed.protocol = ProtoUnknown

\* C8: after sniffProtocol has returned, a reader of the buffered reader gets the
\* client's stream from its first byte, and sniffing again gives the same
\* classification and the same error.
C8_SniffDoesNotConsume ==
    JustSniffed =>
        /\ ReadFull([b |-> bufReader, rd |-> clientConn.rd], clientConn.end,
                    Len(ClientStream)).data = ClientStream
        /\ \E again \in {sniffProtocol([b |-> bufReader, rd |-> clientConn.rd], clientConn.end)} :
               /\ again.protocol = sniffed.protocol
               /\ again.err = sniffed.err

\* C8 witness: a stream has been sniffed and its first 8 bytes are in the buffer
C8_Witness ==
    /\ JustSniffed
    /\ pc = "signal"
    /\ Len(ClientStream) >= PeekLen
    /\ Take(bufReader.buf, PeekLen) = Take(ClientStream, PeekLen)

\* C9 (as claimed): in PROXY mode a connection classified HTTP gets an HTTP
\* response before it is closed.
C9_ProxyModeAnswers ==
    (pc = "done" /\ cfg.StealthMode = StealthProxy
     /\ sniffed.done /\ sniffed.err = nil /\ sniffed.protocol = ProtoHTTP) =>
        (px.st # "idle" /\ clientConn.wr # <<>>)

\* C10: when ProxyRequest has returned the connection is closed and at most one
\* response has been written: none when the request could not be read, the 500
\* text when the proxy URL is no URL, the 502 text when the target could not be
\* asked or did not answer, and the target's response otherwise.
C10_ProxyRequestOneResponse ==
    px.st = "returned" =>
        /\ px.clientConn.closed
        /\ Len(px.clientConn.wr) <= 1
        /\ px.clientConn.wr =
               IF ~px.req.readable THEN <<>>
               ELSE IF ~px.proxyURL.parses
               THEN <<"HTTP/1.0 500 Internal Server Error\r\nConnection: close\r\n\r\n">>
               ELSE IF ~px.proxyURL.fetchable \/ ~px.target.up
               THEN <<"HTTP/1.0 502 Bad Gateway\r\nConnection: close\r\n\r\n">>
               ELSE <<px.target.wire>>

\* C10 witness: a readable request, a proxy URL that parses and a target that is
\* down: the 502 text has been written and the connection closed
C10_Witness ==
    /\ px.st = "returned"
    /\ px.req.readable /\ px.proxyURL.parses /\ px.proxyURL.fetchable /\ ~px.target.up
    /\ px.clientConn.wr = <<badGatewayResponse>>
    /\ px.clientConn.closed

\* text s begins with text p
StrHasPrefix(s, p) == Len(s) >= Len(p) /\ SubSeq(s, 1, Len(p)) = p

\* text s contains text sub
StrContains(s, sub) ==
    \E i \in 1..(Len(s) - Len(sub) + 1) : SubSeq(s, i, i + Len(sub) - 1) = sub

\* the position of the empty line that ends the header block of an HTTP message
HeaderEnd(msg) ==
    With({ i \in 1..(Len(msg) - 3) : SubSeq(msg, i, i + 3) = "\r\n\r\n" }, LAMBDA ends :
        IF ends = {} THEN 0 ELSE CHOOSE i \in ends : \A j \in ends : i <= j)

\* an HTTP connection has been answered by handleStealth in mode m
DecoyServed(m) ==
    /\ pc = "done"
    /\ cfg.StealthMode = m
    /\ sniffed.done /\ sniffed.err = nil /\ sniffed.protocol = ProtoHTTP

\* msg is one HTTP/1.1 200 response of the product: the Server header, a
\* Content-Length equal to the byte count of the body, the product's page and not
\* the other's
IsDecoyOf(msg, server, title, otherTitle) ==
    \E e \in {HeaderEnd(msg)} :
        /\ e > 0
        /\ StrHasPrefix(msg, "HTTP/1.1 200 OK\r\n")
        /\ StrContains(SubSeq(msg, 1, e + 1), "\r\nServer: " \o server \o "\r\n")
        /\ StrContains(SubSeq(msg, 1, e + 1),
                       "\r\nContent-Length: " \o ToString(Len(msg) - (e + 3)) \o "\r\n")
        /\ StrContains(SubSeq(msg, e + 4, Len(msg)), title)
        /\ ~StrContains(SubSeq(msg, e + 4, Len(msg)), otherTitle)

\* C11: an HTTP connection in NGINX or APACHE mode is written exactly one response
\* and closed; the response is an HTTP/1.1 200 with the Server header of the
\* product, a Content-Length equal to the byte count of the body, and the welcome
\* page of the same product.
C11_DecoyResponse ==
    /\ DecoyServed(StealthNginx) =>
           /\ clientConn.closed
           /\ Len(clientConn.wr) = 1
           /\ IsDecoyOf(clientConn.wr[1], "nginx/1.18.0 (Ubuntu)",
                        "<title>Welcome to nginx!</title>", "Apache2 Ubuntu Default Page")
    /\ DecoyServed(StealthApache) =>
           /\ clientConn.closed
           /\ Len(clientConn.wr) = 1
           /\ IsDecoyOf(clientConn.wr[1], "Apache/2.4.41 (Ubuntu)",
                        "Apache2 Ubuntu Default Page", "Welcome to nginx!")

\* C11 witness: the Apache page has been served and the connection closed
C11_Witness ==
    /\ DecoyServed(StealthApache)
    /\ Len(clientConn.wr) = 1
    /\ Len(clientConn.wr[1]) > Len(apacheHTMLBody)
    /\ clientConn.closed

\* C12: a connection classified UNKNOWN, in any stealth mode, and a connection
\* classified HTTP in mode NONE, is closed with nothing written to the client and
\* no upstream dialled.
C12_SilentClose ==
    (sniffed.done
     /\ (sniffed.protocol = ProtoUnknown
         \/ (sniffed.protocol = ProtoHTTP /\ cfg.StealthMode = StealthNone))) =>
        /\ pc = "done"
        /\ clientConn.closed
        /\ clientConn.wr = <<>>
        /\ upstreamConn.dials = <<>>
        /\ upstreamConn.state = "none"

\* C12 witness: a GET request in mode NONE has been closed without an answer
C12_Witness ==
    /\ pc = "done"
    /\ cfg.StealthMode = StealthNone
    /\ sniffed.done /\ sniffed.protocol = ProtoHTTP
    /\ HasPrefix(ClientStream, m_GET)
    /\ clientConn.closed
    /\ clientConn.wr = <<>>

\* C13: when the pipeline has returned, by whatever path, the client socket is
\* closed, and the upstream socket is closed if a dial ever opened it.
C13_SocketsClosedOnReturn ==
    pc = "done" =>
        /\ clientConn.closed
        /\ upstreamConn.state # "open"
        /\ (upstreamConn.dials # <<>> /\ sig.done /\ c2u.st # "idle") =>
               upstreamConn.state = "closed"

\* C13 witness: a relay has finished and both sockets are closed
C13_Witness ==
    /\ pc = "done"
    /\ c2u.st = "done" /\ u2c.st = "done"
    /\ clientConn.closed
    /\ upstreamConn.state = "closed"

\* C14: while either copy goroutine is still running the pipeline has not
\* returned and has closed neither the client socket nor the upstream socket.
C14_RelayWaitsForBoth ==
    (c2u.st = "run" \/ u2c.st = "run") =>
        /\ pc = "relay"
        /\ ~clientConn.closed
        /\ upstreamConn.state = "open"

\* C14 witness: one copy has ended, the other is running, both sockets are open
C14_Witness ==
    /\ pc = "relay"
    /\ c2u.st = "done" /\ u2c.st = "run"
    /\ ~clientConn.closed
    /\ upstreamConn.state = "open"

\* what the upstream has been written when the client-to-upstream copy has run to
\* the end of the client's stream: the ClientHello and every byte the connection
\* delivered after the buffered reader's last read
CopiedToUpstream ==
    sig.rawClientHello \o Drop(ClientStream, Len(sig.rawClientHello) + Len(bufReader.buf))

\* C15: during the relay the upstream's write side is closed exactly when the
\* client-to-upstream copy has ended and the client's write side exactly when the
\* upstream-to-client copy has ended, and neither socket is closed; whichever copy
\* ended first, and however, a copy that ran to EOF has delivered its whole stream.
C15_HalfCloseIndependent ==
    /\ pc = "relay" =>
           /\ upstreamConn.wclosed <=> c2u.st = "done"
           /\ clientConn.wclosed <=> u2c.st = "done"
           /\ upstreamConn.state = "open"
           /\ ~clientConn.closed
    /\ u2c = [st |-> "done", err |-> EOF] => Flatten(clientConn.wr) = Flatten(input.up)
    /\ c2u = [st |-> "done", err |-> EOF] => upstreamConn.wr = CopiedToUpstream

\* C15 witness: the client's stream has ended and the upstream's write side is
\* closed, and the upstream-to-client copy has since delivered bytes
C15_Witness ==
    /\ pc = "relay"
    /\ c2u = [st |-> "done", err |-> EOF]
    /\ upstreamConn.wclosed
    /\ u2c.st = "run"
    /\ clientConn.wr # <<>>
    /\ upstreamConn.rd # <<>>

\* C16: a copy goroutine ends only for a reason of its own: its source is
\* exhausted and has ended (in EOF or in an error), or its own write failed.  An
\* error in the other direction never ends it.
C16_ErrorEndsOwnCopyOnly ==
    /\ u2c.st = "done" =>
           \/ u2c.err = "write error"
           \/ (upstreamConn.rd = <<>> /\ u2c.err = input.upEnd)
    /\ c2u.st = "done" =>
           \/ c2u.err = "write error"
           \/ (clientConn.rd = <<>> /\ c2u.err = input.end)
    /\ (u2c.st = "run" /\ c2u.st = "done") =>
           (pc = "relay" /\ upstreamConn.state = "open" /\ ~clientConn.closed)
    /\ (c2u.st = "run" /\ u2c.st = "done") =>
           (pc = "relay" /\ upstreamConn.state = "open" /\ ~clientConn.closed)

\* C16 witness: the client's connection was reset and the upstream-to-client copy
\* is still running with bytes to deliver
C16_Witness ==
    /\ pc = "relay"
    /\ c2u = [st |-> "done", err |-> ErrReset]
    /\ u2c.st = "run"
    /\ upstreamConn.rd # <<>>

\* C17 (as claimed): whenever the sniffer has yielded a classification the outer
\* TLS handshake has completed, and nothing is parsed, dialled or written before
\* the sniffer has returned.
C17_HandshakeThenSniffThenRest ==
    /\ (sniffed.done /\ sniffed.err = nil) => clientConn.hs = "done"
    /\ (sig.done \/ upstreamConn.dials # <<>> \/ clientConn.wr # <<>>) => sniffed.done

\* C17 (amended): INNER_TLS and HTTP are yielded only after the outer TLS handshake
\* has completed; when the handshake ends in EOF the sniffer yields UNKNOWN with no
\* error, and the connection is closed with nothing parsed, dialled or written;
\* nothing is parsed, dialled or written before the sniffer has returned.
C17_SniffAfterCompletedHandshake ==
    /\ (sniffed.done /\ sniffed.protocol \in {ProtoSignalTLS, ProtoHTTP}) =>
           clientConn.hs = "done"
    /\ (sniffed.done /\ clientConn.hs = "failed") =>
           /\ sniffed.protocol = ProtoUnknown
           /\ sniffed.err = nil <=> input.hsk \in {EOF, ErrUnexpectedEOF}
           /\ pc = "done" /\ clientConn.closed
           /\ ~sig.done /\ upstreamConn.dials = <<>> /\ clientConn.wr = <<>>
    /\ ~sniffed.done =>
           /\ pc = "accepted" /\ clientConn.hs = "pending"
           /\ ~sig.done /\ upstreamConn.dials = <<>> /\ clientConn.wr = <<>>
    /\ (sig.done \/ upstreamConn.dials # <<>> \/ clientConn.wr # <<>>) =>
           (sniffed.done /\ sniffed.err = nil /\ clientConn.hs = "done")

\* C17 witness: the peer closed during the handshake and the sniffer has yielded
\* UNKNOWN with no error
C17_Witness ==
    /\ sniffed = [done |-> TRUE, protocol |-> ProtoUnknown, err |-> nil]
    /\ clientConn.hs = "failed"
    /\ input.hsk = EOF
    /\ clientConn.closed

\* Start has returned to main
StartReturned == srv.main \in {"returned", "exited"}

\* a signal has been delivered to a running server: Start waits on quit, the
\* accept loop runs and the HTTP challenge server serves
SignalDelivered ==
    /\ srv.main = "waiting"
    /\ srv.quit \in Signals
    /\ srv.acceptLoop = "running"
    /\ srv.httpServer = "serving"

\* C18: once SIGINT or SIGTERM has been delivered to a running server, Start
\* eventually returns, whatever the connection goroutines do; and when Start has
\* returned the TLS listener is closed, the accept loop has exited without
\* reporting the 'closed' Accept error, the HTTP challenge server has stopped and
\* both goroutines of the wait group are done.
C18_StartReturnsAfterSignal ==
    /\ [](StartReturned =>
            /\ srv.tlsListener = "closed"
            /\ srv.acceptLoop = "exited"
            /\ ~srv.closedReported
            /\ srv.httpServer = "stopped"
            /\ srv.wg = 0)
    /\ (SignalDelivered ~> StartReturned)

\* Start has returned while every accepted connection is still being handled
C18_Witness ==
    /\ srv.main = "returned"
    /\ \A i \in 1..MaxConns : srv.conns[i] = "handling"

\* C19 (as claimed): a connection that is being handled when the signal arrives
\* is never ended by the shutdown: after main has got Start's return, every
\* accepted connection is still handled or has ended by itself.
C19_RelaysOutliveStart ==
    srv.main = "exited" => \A i \in 1..MaxConns : srv.conns[i] \in {"none", "handling", "closed"}

\* C20 (as claimed): once either peer of a relayed connection has closed its side
\* (a copy has ended on io.EOF), the relay is never left unable to go on to its
\* return while the connection is still relayed: some step of the handler is
\* possible, whatever the other peer does.
C20_RelayEndsWhenEitherSideCloses ==
    (pc = "relay" /\ (c2u = [st |-> "done", err |-> EOF] \/ u2c = [st |-> "done", err |-> EOF]))
        => ENABLED Next

\* a step of the accept loop that takes a new connection
Accepts ==
    \E i \in 1..MaxConns : srv.conns[i] = "none" /\ srv'.conns[i] = "accepted"

\* C21 (as claimed): the accept loop takes a connection only when a certificate
\* for the domain is obtainable: one is cached, or the HTTP challenge server on
\* port 80 is serving.
C21_AcceptOnlyWhenCertObtainable ==
    [][Accepts => (srv.cached \/ srv.httpServer = "serving")]_vars

\* C22 (as claimed): the TLS listener on port 443 is open only after the HTTP
\* challenge server has been started, and the accept loop runs only on an open
\* listener.
C22_StartupOrder ==
    /\ srv.tlsListener = "open" => srv.httpServer # "none"
    /\ srv.acceptLoop = "running" => srv.tlsListener # "none"

\* the values config.New validates, as it resolves them from flags and environment
resolved == resolve(flagParse(input.flags), input.env)

\* the stealth mode a mode token names, "" for a token that names none
modeOf(token) ==
    IF token = <<110, 103, 105, 110, 120>> THEN StealthNginx
    ELSE IF token = <<97, 112, 97, 99, 104, 101>> THEN StealthApache
    ELSE IF token = <<112, 114, 111, 120, 121>> THEN StealthProxy
    ELSE IF token = <<110, 111, 110, 101>> THEN StealthNone
    ELSE ""

\* startup validation as the specification lists it, for the resolved values with
\* mode token `token`: config.New has ended the process, with no listener opened
\* and no connection accepted, exactly when the domain is missing, the token names
\* no mode, or the mode is proxy and the proxy URL is empty or has a scheme other
\* than http and https; otherwise it has returned the configuration of that mode
validationAsListed(token) ==
    srv.main # "start" =>
        /\ cfg.StealthMode = "" <=>
               \/ resolved.domain = <<>>
               \/ modeOf(token) = ""
               \/ /\ modeOf(token) = StealthProxy
                  /\ \/ resolved.proxyURL = <<>>
                     \/ urlParse(resolved.proxyURL).err # nil
                     \/ urlParse(resolved.proxyURL).Scheme \notin
                            {<<104, 116, 116, 112>>, <<104, 116, 116, 112, 115>>}
        /\ cfg.StealthMode = "" =>
               /\ srv.main = "fatal"
               /\ srv.tlsListener = "none"
               /\ \A i \in 1..MaxConns : srv.conns[i] = "none"
        /\ cfg.StealthMode # "" =>
               cfg = [Domain |-> resolved.domain, StealthMode |-> modeOf(token),
                      ProxyURL |-> resolved.proxyURL]

\* C23 (as claimed): startup validation rejects exactly the listed configurations,
\* a mode token being one of none, nginx, apache, proxy as written.
C23_ValidationRejects == validationAsListed(resolved.stealthMode)

\* C23 (amended): startup validation rejects exactly the listed configurations,
\* a mode token being compared without regard to letter case.
C23_ValidationRejectsLowercased == validationAsListed(ToLower(resolved.stealthMode))

\* config.New has rejected mode proxy with a proxy URL of scheme ftp
C23_Witness ==
    /\ srv.main = "fatal"
    /\ cfg.StealthMode = ""
    /\ resolved.domain # <<>>
    /\ modeOf(ToLower(resolved.stealthMode)) = StealthProxy
    /\ resolved.proxyURL # <<>>
    /\ urlParse(resolved.proxyURL).err = nil
    /\ urlParse(resolved.proxyURL).Scheme = <<102, 116, 112>>

\* the values of the three settings when a given flag overrides the environment
\* and the environment is used for a flag that is not given
flagFirst ==
    [domain      |-> IF input.flags.domain.given THEN input.flags.domain.value
                     ELSE input.env.ENV_DOMAIN,
     stealthMode |-> IF input.flags.stealthMode.given THEN input.flags.stealthMode.value
                     ELSE IF input.env.STEALTH_MODE # <<>> THEN input.env.STEALTH_MODE
                     ELSE <<110, 103, 105, 110, 120>>,
     proxyURL    |-> IF input.flags.proxyURL.given THEN input.flags.proxyURL.value
                     ELSE input.env.PROXY_URL]

\* C24 (as claimed): config.New configures the value of each flag that is given,
\* whatever the environment holds, the environment variable for a flag that is not
\* given, and mode nginx when neither is set: its outcome is the outcome of
\* validating those values.
C24_FlagsOverrideEnv ==
    srv.main # "start" =>
        /\ cfg.StealthMode = "" <=> validate(flagFirst).fatal
        /\ cfg.StealthMode # "" => cfg = validate(flagFirst).cfg

\* the upstream dial has failed
DialFailed == upstreamConn.dials # <<>> /\ upstreamConn.state = "none"

\* the write of the ClientHello to the upstream has failed
HelloWriteFailed ==
    upstreamConn.state = "closed" /\ Len(upstreamConn.wr) < Len(sig.rawClientHello)

\* C25: a connection that ended on a failed outer handshake, a sniffing error, a
\* ClientHello that does not parse or a failed dial has had nothing written to the
\* client and is closed; a ClientHello that does not parse is never followed by a
\* dial; a failed dial or a failed write of the ClientHello is never followed by
\* a copy goroutine.
C25_FailuresCloseSilently ==
    /\ (pc = "done" /\ (\/ clientConn.hs = "failed"
                        \/ sniffed.err # nil
                        \/ (sig.done /\ sig.err # nil)
                        \/ DialFailed))
          => (clientConn.wr = <<>> /\ clientConn.closed)
    /\ (sig.done /\ sig.err # nil) => upstreamConn.dials = <<>>
    /\ (DialFailed \/ HelloWriteFailed) => (c2u.st = "idle" /\ u2c.st = "idle")

\* the dial of an allow-listed upstream has failed and the connection is closed
C25_Witness ==
    /\ pc = "done"
    /\ DialFailed
    /\ sig.ok
    /\ clientConn.closed
    /\ clientConn.wr = <<>>

C27_NoSharedMutableState ==
    [][cfg' = cfg /\ srv'.rand = srv.rand]_vars

\* C30 (as claimed): the instant named by the Last-Modified header of an NGINX or
\* APACHE response is not after the clock reading the response was generated at,
\* and not more than 365 days before it.
C30_LastModifiedWithinPastYear ==
    px.st = "returned" =>
        /\ px.lastModified <= input.now
        /\ input.now - px.lastModified <= 365 * 86400

\* C29 (as claimed): a connection that ended after an inner ClientHello whose
\* server name is not in the routing table, or after a plain HTTP request, has been
\* written the decoy of the configured mode: in NGINX and APACHE mode, one
\* response of that product.
C29_DecoyForUnknownSNIOrHTTP ==
    (/\ pc = "done"
     /\ \/ sig.done /\ sig.err = nil /\ ~sig.ok
        \/ sniffed.done /\ sniffed.err = nil /\ sniffed.protocol = ProtoHTTP)
      =>
        /\ cfg.StealthMode = StealthNginx =>
               /\ Len(clientConn.wr) = 1
               /\ IsDecoyOf(clientConn.wr[1], "nginx/1.18.0 (Ubuntu)",
                            "<title>Welcome to nginx!</title>", "Apache2 Ubuntu Default Page")
        /\ cfg.StealthMode = StealthApache =>
               /\ Len(clientConn.wr) = 1
               /\ IsDecoyOf(clientConn.wr[1], "Apache/2.4.41 (Ubuntu)",
                            "Apache2 Ubuntu Default Page", "<title>Welcome to nginx!</title>")

\* C28: a connection whose outer server name is not the configured domain (letter
\* case aside) fails its handshake in the certificate callback; it is closed with
\* no classification made, no ClientHello parsed, no upstream dialled and nothing
\* written to it.
C28_OnlyConfiguredDomainServed ==
    (pc # "accepted" /\ ToLower(input.sni) # ToLower(cfg.Domain)) =>
        /\ pc = "done"
        /\ clientConn.hs = "failed"
        /\ clientConn.closed
        /\ sniffed.err # nil
        /\ sniffed.protocol = ProtoUnknown
        /\ ~sig.done
        /\ upstreamConn.dials = <<>>
        /\ clientConn.wr = <<>>

\* a client that named another domain and sent a ClientHello for chat.signal.org
\* has been closed
C28_Witness ==
    /\ pc = "done"
    /\ input.sni = <<101, 46, 99, 111>>
    /\ input.kind = "hello"
    /\ input.name = h_chat_signal_org
    /\ clientConn.closed

\* the defects that leave a stream shorter than its record, a record that is no
\* handshake record or no ClientHello, a length running past the record, or a
\* ClientHello without extensions or without server_name
ListedDefects == { m.defect : m \in MalformedRecords }

\* C31: getSNI fails closed: it returns an error with an empty server name and no
\* raw bytes, or no error with a non-empty server name and the raw record; and it
\* returns an error for a stream shorter than 5 + L, a first byte other than 0x16,
\* a handshake type other than 1, a handshake or vector length running past the
\* record, a ClientHello with no extensions block and one with no server_name
C31_ParserFailsClosed ==
    (pc = "returned") =>
        /\ \/ sig.err # nil /\ sig.serverName = <<>> /\ sig.rawClientHello = <<>>
           \/ sig.err = nil /\ sig.serverName # <<>> /\ sig.rawClientHello = input.record
        /\ input.defect \in ListedDefects => sig.err # nil

\* C32: getSNI decides on the first server_name extension it meets: it returns the
\* host name of that extension's first list entry whatever follows it, a later
\* entry or extension that is malformed included; and when that first entry has
\* a name_type other than 0 or an empty host name, getSNI fails, whatever later
\* entry or extension holds a host name
C32_FirstServerNameDecides ==
    (pc = "returned" /\ input \in { i \in GetSNIInputs : \E c \in ServerNameRecords : i.defect = c.defect }) =>
        IF input.nameType = 0 /\ input.first # <<>>
        THEN sig.err = nil /\ sig.serverName = input.first
        ELSE sig.err # nil /\ sig.serverName = <<>>

\* getSNI has returned the first entry's host name of a record whose later
\* extension is malformed
C32_Witness ==
    /\ pc = "returned"
    /\ input.defect = "later extension malformed"
    /\ sig.serverName = h_chat_signal_org

\* the bytes taken out of the reader: what the client sent less what the reader
\* still buffers and what is still unread on the connection
consumed == Len(ClientStream) - Len(bufReader.buf) - Len(Flatten(clientConn.rd))

\* the record length L: the big-endian value of header bytes 3..4
recordLen == BigEndian(SubSeq(ClientStream, 4, 5))

\* C33: getSNI reads exactly one record from its reader: when the stream holds the
\* 5 + L bytes of a record that starts with 0x16, getSNI, succeeding or failing on
\* what the body holds, has consumed exactly 5 + L bytes; when the first header
\* byte is not 0x16 it has consumed exactly the 5 header bytes
C33_ReadsExactlyOneRecord ==
    (pc = "returned" /\ Len(ClientStream) >= RecordHeaderLen) =>
        IF ClientStream[1] # RecordTypeHandshake
        THEN consumed = RecordHeaderLen /\ sig.err # nil
        ELSE Len(ClientStream) >= RecordHeaderLen + recordLen =>
                 consumed = RecordHeaderLen + recordLen

\* getSNI has failed on the body of a whole record that bytes of a next record
\* follow, and has taken the record and no more out of the reader
C33_Witness ==
    /\ pc = "returned"
    /\ input.tail # <<>>
    /\ input.defect = "no server_name extension"
    /\ sig.err # nil
    /\ consumed = Len(input.record)

\* the error Peek(8) returned: the one the connection's data ends with, when fewer
\* than 8 bytes come before it
peekErr == IF Len(ClientStream) < PeekLen THEN clientConn.end ELSE nil

\* the connection has been closed with nothing parsed, dialled or written
closedUntouched ==
    /\ pc = "done"
    /\ clientConn.closed
    /\ clientConn.wr = <<>>
    /\ ~sig.done
    /\ upstreamConn.dials = <<>>
    /\ upstreamConn.state = "none"

\* the sniffer's answers to a peek that ended in EOF with no byte read and to a
\* peek that failed with an error outside `tolerated`
sniffErrorsSurface(tolerated) ==
    sniffed.done =>
        /\ (ClientStream = <<>> /\ peekErr = EOF) =>
               sniffed.protocol = ProtoUnknown /\ sniffed.err = nil
        /\ (peekErr # nil /\ peekErr \notin tolerated) =>
               sniffed.err = peekErr /\ closedUntouched

\* C34 as stated: a stream that ends with zero bytes available is UNKNOWN with no
\* error; a peek that fails with an I/O error other than EOF makes the sniffer
\* return that error, and the connection is then closed with nothing parsed,
\* dialled or written
C34_SniffErrorsSurface == sniffErrorsSurface({EOF})

\* C34, amended: a stream that ends with zero bytes available is UNKNOWN with no
\* error; a peek that fails with an I/O error other than EOF and unexpected EOF
\* makes the sniffer return that error, and the connection is then closed with
\* nothing parsed, dialled or written
C34_SniffErrorsSurfaceButUnexpectedEOF == sniffErrorsSurface({EOF, ErrUnexpectedEOF})

\* the sniffer has returned the reset that ended a stream of three bytes, and the
\* connection is closed
C34_Witness ==
    /\ sniffed.done
    /\ ClientStream = <<22, 3, 1>>
    /\ sniffed.err = ErrReset
    /\ closedUntouched

\* what sniffProtocol returns on the connection of input j: the first read runs
\* the outer handshake, as in HandleConnection
sniffOf(j) ==
    With(GetCertificate(cfg.Domain, j.sni), LAMBDA h :
        With(IF h # nil THEN h ELSE j.hsk, LAMBDA e :
            With(sniffProtocol([b |-> NewReader, rd |-> IF e = "ok" THEN j.segs ELSE <<>>],
                               IF e = "ok" THEN j.end ELSE e),
                 LAMBDA s : [protocol |-> s.protocol, err |-> s.err])))

\* C35: the sniffer's classification is sound: INNER_TLS only for a first byte
\* 0x16, HTTP only for peeked bytes that start with one of the eight upper-case
\* method tokens and its space, UNKNOWN for every other prefix; and the result is
\* the same for every stream with the same first min(8, length) bytes (ending
\* the same way, when the stream is shorter than 8 bytes)
C35_ClassificationSound ==
    sniffed.done =>
        /\ sniffed.protocol = ProtoSignalTLS =>
               ClientStream # <<>> /\ ClientStream[1] = RecordTypeHandshake
        /\ sniffed.protocol = ProtoHTTP =>
               \E m \in MethodTokens : HasPrefix(Take(ClientStream, Min(PeekLen, Len(ClientStream))), m)
        /\ (/\ ~(ClientStream # <<>> /\ ClientStream[1] = RecordTypeHandshake)
            /\ ~StartsWithMethod) =>
               sniffed.protocol = ProtoUnknown
        /\ JustSniffed =>
               \A j \in Inputs :
                   (/\ Take(Flatten(j.segs), Min(PeekLen, Len(Flatten(j.segs))))
                         = Take(ClientStream, Min(PeekLen, Len(ClientStream)))
                    /\ Len(ClientStream) >= PeekLen \/ j.end = input.end
                    /\ j.sni = input.sni /\ j.hsk = input.hsk) =>
                       sniffOf(j) = [protocol |-> sniffed.protocol, err |-> sniffed.err]

\* a request line with a lower-case method has been classified UNKNOWN
C35_Witness ==
    /\ sniffed.done
    /\ HasPrefix(ClientStream, <<103, 101, 116, 32>>)
    /\ sniffed.protocol = ProtoUnknown
    /\ sniffed.err = nil

\* C36: the accept loop ends only on the Accept error of a closed listener: it has
\* exited only when the listener is closed, and after an Accept error on the open
\* listener the loop is still running and takes the next connection
C36_AcceptLoopSurvivesErrors ==
    /\ srv.acceptLoop = "exited" => srv.tlsListener = "closed"
    /\ (alive /\ srv.acceptErrors > 0 /\ srv.tlsListener = "open") =>
           /\ srv.acceptLoop \in {"running", "accepted"}
           /\ (srv.acceptLoop = "running" /\ \E i \in 1..MaxConns : srv.conns[i] = "none")
                  => ENABLED Accept

\* an Accept error has been logged, no connection has been taken yet and the loop
\* is at Accept on the open listener
C36_Witness ==
    /\ alive
    /\ srv.acceptErrors > 0
    /\ srv.tlsListener = "open"
    /\ srv.acceptLoop = "running"
    /\ \A i \in 1..MaxConns : srv.conns[i] = "none"
    /\ ENABLED Accept

\* the listener is closed whenever httpServer.Shutdown has been called
closedBeforeShutdown == srv.httpServer = "shutdown" => srv.tlsListener = "closed"

\* C37 as stated: during shutdown the TLS listener is closed before the shutdown
\* of the HTTP challenge server is initiated, and once the listener is closed no
\* connection goroutine is started
C37_NoSpawnAfterListenerClosed ==
    /\ []closedBeforeShutdown
    /\ [][srv.tlsListener = "closed" =>
             \A i \in 1..MaxConns : srv'.conns[i] = "handling" => srv.conns[i] = "handling"]_vars

\* C37, amended: during shutdown the TLS listener is closed before the shutdown of
\* the HTTP challenge server is initiated, and once the listener is closed no
\* connection is accepted: the only connection goroutine started after that is
\* the one of a connection Accept had returned before the listener was closed
C37_NoAcceptAfterListenerClosed ==
    /\ []closedBeforeShutdown
    /\ [][srv.tlsListener = "closed" =>
             \A i \in 1..MaxConns :
                 /\ srv'.conns[i] = "accepted" => srv.conns[i] = "accepted"
                 /\ srv'.conns[i] = "handling" => srv.conns[i] \in {"accepted", "handling"}]_vars

\* stop has closed the listener and has not called Shutdown yet, with a free place
\* for a connection and the accept loop at Accept
C37_Witness ==
    /\ srv.main = "stop"
    /\ srv.tlsListener = "closed"
    /\ srv.httpServer = "serving"
    /\ srv.acceptLoop = "running"
    /\ srv.conns[1] = "none"

C39_HalfCloseOnEveryCopyEnd ==
    /\ c2u.st = "done" => upstreamConn.wclosed
    /\ u2c.st = "done" => clientConn.wclosed

\* the upstream's read failed with a reset while the client's copy still runs, and
\* the client's write side has been closed
C39_Witness ==
    /\ pc = "relay"
    /\ u2c = [st |-> "done", err |-> ErrReset]
    /\ c2u.st = "run"
    /\ clientConn.wclosed
    /\ ~clientConn.closed

====
